---------------------------- MODULE Spec2Model ----------------------------
(***************************************************************************)
(* egui_colors: the colour-space layer (color_space.rs), the 12-step scale *)
(* generator (scales.rs), the role tokens (tokens.rs) and the Colorix      *)
(* front object (lib.rs).                                                  *)
(*                                                                         *)
(* f32 values are modelled as fixed-point integers with six decimals: the  *)
(* integer x stands for the real x / One.  u8 values are the integers      *)
(* 0..255.  An Okhsl value is a record [hue, saturation, lightness], a     *)
(* LinSrgb a record [red, green, blue], a Color32 a triple <<r, g, b>>.    *)
(*                                                                         *)
(* A Rust function whose locals are used several times is written as a     *)
(* chain of operators, each local becoming a parameter of the next         *)
(* operator: TLC expands every LET name at each of its uses when it        *)
(* builds its action statistics, parameters it does not.                   *)
(***************************************************************************)
EXTENDS Integers, Sequences, FiniteSets, TLC

One == 1000 * 1000

(***************************************************************************)
(* f32 arithmetic on six-decimal fixed point.  TLC's integers are 32 bits  *)
(* wide, so products and quotients are formed from three-digit limbs.      *)
(***************************************************************************)
Abs(x) == IF x < 0 THEN -x ELSE x

Sgn(x) == IF x < 0 THEN -1 ELSE 1

Min(x, y) == IF x <= y THEN x ELSE y

Max(x, y) == IF x >= y THEN x ELSE y

\* f32 multiplication of non-negative operands, rounded to nearest
MulU(a, b) ==
    LET ah == a \div 1000
        al == a % 1000
        bh == b \div 1000
        bl == b % 1000
    IN  ah * bh + (ah * bl + al * bh + (al * bl) \div 1000 + 500) \div 1000

\* a * b
FMul(a, b) == Sgn(a) * Sgn(b) * MulU(Abs(a), Abs(b))

\* the n decimal digits of r / b after the point, r < b
RECURSIVE FracDigits(_, _, _)
FracDigits(r, b, n) ==
    IF n = 0 THEN (IF 2 * r >= b THEN 1 ELSE 0)
    ELSE ((r * 10) \div b) * (10 ^ (n - 1)) + FracDigits((r * 10) % b, b, n - 1)

\* f32 division of non-negative operands, b > 0
RECURSIVE DivU(_, _)
DivU(a, b) ==
    IF b >= 200 * One
    THEN DivU((a + 5) \div 10, (b + 5) \div 10)
    ELSE (a \div b) * One + FracDigits(a % b, b, 6)

\* a / b (b # 0)
FDiv(a, b) == IF a = 0 THEN 0 ELSE Sgn(a) * Sgn(b) * DivU(Abs(a), Abs(b))

\* f32::mul_add: a * b + c
mul_add(a, b, c) == FMul(a, b) + c

\* f32::clamp; the Rust method panics when min > max
clamp(x, lo, hi) == IF x < lo THEN lo ELSE IF x > hi THEN hi ELSE x

\* integer square root, by Newton's iteration from above
RECURSIVE ISqrtFrom(_, _)
ISqrtFrom(x, y) ==
    LET z == (y + x \div y) \div 2
    IN  IF z >= y THEN y ELSE ISqrtFrom(x, z)

ISqrt(x) == IF x <= 1 THEN x ELSE ISqrtFrom(x, x)

RECURSIVE SqrtFrom(_, _, _)
RECURSIVE SqrtNext(_, _, _, _)
SqrtNext(x, y, z, n) == IF n = 0 \/ Abs(z - y) <= 1 THEN z ELSE SqrtFrom(x, z, n - 1)

SqrtFrom(x, y, n) == SqrtNext(x, y, (y + FDiv(x, y)) \div 2, n)

\* f32::sqrt (x >= 0)
sqrt(x) == IF x <= 0 THEN 0 ELSE SqrtFrom(x, Max(1, ISqrt(x)) * 1000, 8)

RECURSIVE ICbrtBetween(_, _, _)
ICbrtBetween(x, lo, hi) ==
    IF hi - lo <= 1 THEN lo
    ELSE LET mid == (lo + hi) \div 2
         IN  IF mid * mid * mid <= x THEN ICbrtBetween(x, mid, hi)
             ELSE ICbrtBetween(x, lo, mid)

RECURSIVE CbrtFrom(_, _, _)
RECURSIVE CbrtNext(_, _, _, _)
CbrtNext(x, y, z, n) == IF n = 0 \/ Abs(z - y) <= 1 THEN z ELSE CbrtFrom(x, z, n - 1)

CbrtFrom(x, y, n) == CbrtNext(x, y, (2 * y + FDiv(x, FMul(y, y))) \div 3, n)

CbrtU(x) == CbrtFrom(x, Max(1, ICbrtBetween(x, 0, 1291)) * 10000, 12)

\* f32::cbrt
cbrt(x) == IF x = 0 THEN 0 ELSE Sgn(x) * CbrtU(Abs(x))

Ln2 == 693 * 1000 + 147

\* ln of m in [0.75, 1.5], by the series of 2 * artanh z, z = (m-1)/(m+1)
LnPoly(z2) ==
    One + FMul(z2, One \div 3 + FMul(z2, One \div 5
              + FMul(z2, One \div 7 + FMul(z2, One \div 9 + FMul(z2, One \div 11)))))

LnSeries(z) == 2 * FMul(z, LnPoly(FMul(z, z)))

LnNear1(m) == LnSeries(FDiv(m - One, m + One))

RECURSIVE LnReduce(_, _)
LnReduce(x, k) ==
    IF x > (3 * One) \div 2 THEN LnReduce((x + 1) \div 2, k + 1)
    ELSE IF x < (3 * One) \div 4 THEN LnReduce(x * 2, k - 1)
         ELSE k * Ln2 + LnNear1(x)

\* f32::ln (x > 0)
ln(x) == LnReduce(x, 0)

\* e^r for |r| <= 0.35
ExpNear0(r) ==
    One + FMul(r, One + FMul(r \div 2, One + FMul(r \div 3, One + FMul(r \div 4,
          One + FMul(r \div 5, One + FMul(r \div 6, One + FMul(r \div 7, One + r \div 8)))))))

RECURSIVE Scale2(_, _)
Scale2(x, k) ==
    IF k = 0 THEN x
    ELSE IF k > 0 THEN Scale2(x * 2, k - 1)
         ELSE Scale2((x + 1) \div 2, k + 1)

\* f32::exp
exp(y) ==
    LET k == IF y >= 0 THEN (y + Ln2 \div 2) \div Ln2 ELSE -((-y + Ln2 \div 2) \div Ln2)
    IN  IF k < -21 THEN 0 ELSE Scale2(ExpNear0(y - k * Ln2), k)

\* f32::powf (x >= 0)
powf(x, p) == IF x <= 0 THEN 0 ELSE IF x = One THEN One ELSE exp(FMul(p, ln(x)))

\* std::f32::consts::PI
PI == 3141593

\* sin and cos on [0, pi/2], by their Taylor series
SinPoly(x2) ==
    One - FMul(x2 \div 6, One - FMul(x2 \div 20, One - FMul(x2 \div 42,
        One - FMul(x2 \div 72, One - FMul(x2 \div 110, One - x2 \div 156)))))

SinQ(x) == FMul(x, SinPoly(FMul(x, x)))

CosPoly(x2) ==
    One - FMul(x2 \div 2, One - FMul(x2 \div 12, One - FMul(x2 \div 30,
        One - FMul(x2 \div 56, One - FMul(x2 \div 90, One - FMul(x2 \div 132,
        One - x2 \div 182))))))

CosQ(x) == CosPoly(FMul(x, x))

\* f32::sin and f32::cos of an angle in [0, 2 pi]
sin(x) ==
    Sgn(PI - x) * SinQ(IF x <= PI \div 2 THEN x
                       ELSE IF x <= PI THEN PI - x
                       ELSE IF x <= PI + PI \div 2 THEN x - PI
                       ELSE Max(0, 2 * PI - x))

cos(x) ==
    (IF x <= PI \div 2 \/ x > PI + PI \div 2 THEN 1 ELSE -1)
    * CosQ(IF x <= PI \div 2 THEN x
           ELSE IF x <= PI THEN PI - x
           ELSE IF x <= PI + PI \div 2 THEN x - PI
           ELSE Max(0, 2 * PI - x))

\* arctan on [-0.27, 0.27], by its Taylor series
AtanPoly(t2) ==
    One - FMul(t2, One \div 3 - FMul(t2, One \div 5 - FMul(t2, One \div 7
        - FMul(t2, One \div 9 - FMul(t2, One \div 11)))))

AtanSmall(t) == FMul(t, AtanPoly(FMul(t, t)))

\* arctan on [0, 1]: arctan t = pi/6 + arctan((sqrt3 t - 1) / (sqrt3 + t))
AtanUnit(t) ==
    (IF t <= 267949 THEN 0 ELSE PI \div 6)
    + AtanSmall(IF t <= 267949 THEN t ELSE FDiv(FMul(1732051, t) - One, 1732051 + t))

\* arctan(ay / ax) for ay, ax >= 0
AtanAbs(ay, ax) ==
    IF ax = 0 /\ ay = 0 THEN 0
    ELSE (IF ay <= ax THEN 0 ELSE PI \div 2)
         + (IF ay <= ax THEN 1 ELSE -1) * AtanUnit(FDiv(Min(ay, ax), Max(ay, ax)))

AtanSigned(y, x, q) == Sgn(y) * (IF x >= 0 THEN q ELSE PI - q)

\* f32::atan2(y, x), in (-pi, pi]; y = 0 stands for +0.0
atan2(y, x) == AtanSigned(y, x, AtanAbs(Abs(y), Abs(x)))

(***************************************************************************)
(* color_space.rs: gamma transfer                                          *)
(***************************************************************************)
LinSrgb(r, g, b) == [red |-> r, green |-> g, blue |-> b]

Okhsl(h, s, l) == [hue |-> h, saturation |-> s, lightness |-> l]

Oklab(l, a, b) == [l |-> l, a |-> a, b |-> b]

linear_f32_from_gamma_u8(s) ==
    IF s <= 10 THEN FDiv(s * 1000, 3294600)
    ELSE powf(FDiv(s * 1000 + 14025, 269025), 2400000)

\* a cast without the half: r as u8
FastTruncate(r) == IF r < 0 THEN 0 ELSE Min(255, r \div One)

\* (r + 0.5) as u8: the cast truncates and saturates
fast_round(r) ==
    IF r + One \div 2 < 0 THEN 0
    ELSE Min(255, (r + One \div 2) \div One)

gamma_u8_from_linear_f32(l) ==
    IF l <= 0 THEN 0
    ELSE IF l <= 3131 THEN fast_round(FMul(3294600, l * 1000))
    ELSE IF l <= One THEN fast_round(FMul(269025000, powf(l, FDiv(One, 2400000))) - 14025000)
    ELSE 255

LinLighten(c, factor) ==
    LinSrgb(clamp(c.red + FMul(factor, One - c.red), 0, One),
            clamp(c.green + FMul(factor, One - c.green), 0, One),
            clamp(c.blue + FMul(factor, One - c.blue), 0, One))

LinDarken(c, factor) ==
    LinSrgb(clamp(c.red - FMul(factor, c.red), 0, One),
            clamp(c.green - FMul(factor, c.green), 0, One),
            clamp(c.blue - FMul(factor, c.blue), 0, One))

from_linear(c) ==
    <<gamma_u8_from_linear_f32(c.red), gamma_u8_from_linear_f32(c.green),
      gamma_u8_from_linear_f32(c.blue)>>

into_linear(rgb) ==
    LinSrgb(linear_f32_from_gamma_u8(rgb[1]), linear_f32_from_gamma_u8(rgb[2]),
            linear_f32_from_gamma_u8(rgb[3]))

from_degrees(hue) == clamp(FDiv(hue, 360 * One), 0, One)

as_degrees(c) == clamp(FMul(c.hue, 360 * One), 0, 360 * One)

OkhslLighten(c, factor) ==
    Okhsl(c.hue, c.saturation,
          clamp(c.lightness + FMul(factor, One - c.lightness), 0, One))

OkhslDarken(c, factor) ==
    Okhsl(c.hue, c.saturation,
          clamp(c.lightness - FMul(factor, c.lightness), 0, One))

(***************************************************************************)
(* color_space.rs: Oklab and the gamut boundary                            *)
(***************************************************************************)
Cube(x) == FMul(FMul(x, x), x)

\* to_linear_srgb: the matrix applied to the cubed l_, m_, s_
LmsToLinear(l, m, s) ==
    LinSrgb(mul_add(230970, s, mul_add(4076742, l, FMul(-3307712, m))),
            mul_add(-341319, s, mul_add(-1268438, l, FMul(2609757, m))),
            mul_add(1707615, s, mul_add(-4196, l, FMul(-703419, m))))

to_linear_srgb(c) ==
    LmsToLinear(Cube(mul_add(215804, c.b, mul_add(396338, c.a, c.l))),
                Cube(mul_add(-63854, c.b, mul_add(-105561, c.a, c.l))),
                Cube(mul_add(-1291486, c.b, mul_add(-89484, c.a, c.l))))

\* linear_srgb_to_oklab: the matrix applied to the cube roots l_, m_, s_
LmsToOklab(l_, m_, s_) ==
    Oklab(mul_add(-4072, s_, mul_add(210454, l_, FMul(793618, m_))),
          mul_add(450594, s_, mul_add(1977998, l_, FMul(-2428592, m_))),
          mul_add(-808676, s_, mul_add(25904, l_, FMul(782772, m_))))

linear_srgb_to_oklab(c) ==
    LmsToOklab(cbrt(mul_add(51446, c.blue, mul_add(412221, c.red, FMul(536333, c.green)))),
               cbrt(mul_add(107397, c.blue, mul_add(211904, c.red, FMul(680699, c.green)))),
               cbrt(mul_add(629979, c.blue, mul_add(88302, c.red, FMul(281719, c.green)))))

\* the coefficient rows [k0, k1, k2, k3, k4, wl, wm, ws] of the three hue sectors
MaxSatCoefficients(a, b) ==
    IF mul_add(-1881703, a, -FMul(809365, b)) > One
    THEN <<1190863, 1765767, 596626, 755152, 567712, 4076742, -3307712, 230970>>
    ELSE IF mul_add(1814441, a, -FMul(1194453, b)) > One
         THEN <<739565, -459544, 82854, 125411, 145032, -1268438, 2609757, -341319>>
         ELSE <<1357337, -9158, -1151302, -505596, 6922, -4196, -703419, 1707615>>

\* compute_max_saturation: the Halley step S - f f1 / (f1^2 - f f2 / 2)
MaxSatUpdate(sat0, f, f1, f2) ==
    sat0 - FDiv(FMul(f, f1), mul_add(f1, f1, -FMul(f \div 2, f2)))

\* compute_max_saturation: f and its derivatives from l_, m_, s_ and k_l, k_m, k_s
MaxSatHalley(k, sat0, kk, lms) ==
    MaxSatUpdate(sat0,
        mul_add(k[8], Cube(lms[3]), mul_add(k[6], Cube(lms[1]), FMul(k[7], Cube(lms[2])))),
        mul_add(k[8], FMul(3 * FMul(kk[3], lms[3]), lms[3]),
            mul_add(k[6], FMul(3 * FMul(kk[1], lms[1]), lms[1]),
                FMul(k[7], FMul(3 * FMul(kk[2], lms[2]), lms[2])))),
        mul_add(k[8], FMul(6 * kk[3], FMul(kk[3], lms[3])),
            mul_add(k[6], FMul(6 * kk[1], FMul(kk[1], lms[1])),
                FMul(k[7], FMul(6 * kk[2], FMul(kk[2], lms[2]))))))

\* compute_max_saturation: l_, m_, s_ at the approximation sat0
MaxSatLms(k, sat0, kk) ==
    MaxSatHalley(k, sat0, kk,
        <<mul_add(sat0, kk[1], One), mul_add(sat0, kk[2], One), mul_add(sat0, kk[3], One)>>)

\* compute_max_saturation: the polynomial approximation and k_l, k_m, k_s
MaxSatStart(a, b, k) ==
    MaxSatLms(k,
        mul_add(FMul(k[5], a), b,
            mul_add(FMul(k[4], a), a, mul_add(k[3], b, mul_add(k[2], a, k[1])))),
        <<mul_add(396338, a, FMul(215804, b)),
          mul_add(-105561, a, -FMul(63854, b)),
          mul_add(-89484, a, -FMul(1291486, b))>>)

compute_max_saturation(a, b) == MaxSatStart(a, b, MaxSatCoefficients(a, b))

ScaleOfMax(rgb_scale) ==
    cbrt(FDiv(One, Max(Max(rgb_scale.red, rgb_scale.green), Max(rgb_scale.blue, 0))))

scale_l(l_vt, c_vt, a_, b_) ==
    ScaleOfMax(to_linear_srgb(Oklab(l_vt, FMul(a_, c_vt), FMul(b_, c_vt))))

CuspPoint(l_cusp, s_cusp) == <<l_cusp, FMul(l_cusp, s_cusp)>>

CuspAt(a, b, s_cusp) == CuspPoint(scale_l(One, s_cusp, a, b), s_cusp)

find_cusp(a, b) == CuspAt(a, b, compute_max_saturation(a, b))

\* 10e5, the candidate of a channel that has no valid exit; any value above
\* every valid candidate selects the same minimum
NoExit == 2000 * One

\* one channel of the Halley step: t_r = -r u_r when u_r = r1 / (r1^2 - r r2 / 2) >= 0
HalleyU(r, r1, r2) == FDiv(r1, mul_add(r1, r1, -FMul(r \div 2, r2)))

HalleyExit(r, u) == IF u >= 0 THEN FMul(-r, u) ELSE NoExit

HalleyT(r, r1, r2) == HalleyExit(r, HalleyU(r, r1, r2))

\* find_gamut_intersection: the three channels from l, m, s and their derivatives
GamutChannels(t, lms, d1, d2) ==
    t + Min(HalleyT(mul_add(230970, lms[3], mul_add(4076742, lms[1], -FMul(3307712, lms[2]))) - One,
                    mul_add(230970, d1[3], mul_add(4076742, d1[1], -FMul(3307712, d1[2]))),
                    mul_add(230970, d2[3], mul_add(4076742, d2[1], -FMul(3307712, d2[2])))),
            Min(HalleyT(mul_add(341319, -lms[3], mul_add(-1268438, lms[1], FMul(2609757, lms[2]))) - One,
                        mul_add(341319, -d1[3], mul_add(-1268438, d1[1], FMul(2609757, d1[2]))),
                        mul_add(341319, -d2[3], mul_add(-1268438, d2[1], FMul(2609757, d2[2])))),
                HalleyT(mul_add(1707615, lms[3], mul_add(-4196, lms[1], -FMul(703419, lms[2]))) - One,
                        mul_add(1707615, d1[3], mul_add(-4196, d1[1], -FMul(703419, d1[2]))),
                        mul_add(1707615, d2[3], mul_add(-4196, d2[1], -FMul(703419, d2[2]))))))

\* find_gamut_intersection: l, m, s and first and second derivatives from
\* l_, m_, s_ (lms_) and l_dt, m_dt, s_dt (dt)
GamutDerivatives(t, lms_, dt) ==
    GamutChannels(t,
        <<Cube(lms_[1]), Cube(lms_[2]), Cube(lms_[3])>>,
        <<FMul(3 * FMul(dt[1], lms_[1]), lms_[1]),
          FMul(3 * FMul(dt[2], lms_[2]), lms_[2]),
          FMul(3 * FMul(dt[3], lms_[3]), lms_[3])>>,
        <<FMul(6 * dt[1], FMul(dt[1], lms_[1])),
          FMul(6 * dt[2], FMul(dt[2], lms_[2])),
          FMul(6 * dt[3], FMul(dt[3], lms_[3]))>>)

\* find_gamut_intersection: the point (ll, c) on the line at t
GamutPoint(t, kk, d_l, d_c, ll, c) ==
    GamutDerivatives(t,
        <<mul_add(c, kk[1], ll), mul_add(c, kk[2], ll), mul_add(c, kk[3], ll)>>,
        <<mul_add(d_c, kk[1], d_l), mul_add(d_c, kk[2], d_l), mul_add(d_c, kk[3], d_l)>>)

\* find_gamut_intersection: the upper half, one Halley step from the
\* intersection t with the triangle
GamutUpper(a, b, l_1, c_1, l_0, t) ==
    GamutPoint(t,
        <<mul_add(396338, a, FMul(215804, b)),
          mul_add(-105561, a, -FMul(63854, b)),
          mul_add(-89484, a, -FMul(1291486, b))>>,
        l_1 - l_0, c_1,
        mul_add(l_0, One - t, FMul(t, l_1)), FMul(t, c_1))

find_gamut_intersection(a, b, l_1, c_1, l_0, cusp) ==
    IF mul_add(l_1 - l_0, cusp[2], -FMul(cusp[1] - l_0, c_1)) <= 0
    THEN FDiv(FMul(cusp[2], l_0), mul_add(c_1, cusp[1], FMul(cusp[2], l_0 - l_1)))
    ELSE GamutUpper(a, b, l_1, c_1, l_0,
             FDiv(FMul(cusp[2], l_0 - One),
                  mul_add(c_1, cusp[1] - One, FMul(cusp[2], l_0 - l_1))))

ToeRoot(u, x, k_2, k_3) == (u + sqrt(mul_add(u, u, FMul(4 * k_2, FMul(k_3, x))))) \div 2

ToeWith(x, k_1, k_2, k_3) == ToeRoot(mul_add(k_3, x, -k_1), x, k_2, k_3)

toe(x) == ToeWith(x, 206000, 30000, FDiv(One + 206000, One + 30000))

ToeInvWith(x, k_1, k_2, k_3) == FDiv(mul_add(x, x, FMul(k_1, x)), FMul(k_3, x + k_2))

toe_inv(x) == ToeInvWith(x, 206000, 30000, FDiv(One + 206000, One + 30000))

st_mid(a_, b_) ==
    <<115170 + FDiv(One,
                 mul_add(a_,
                   mul_add(a_,
                     mul_add(a_,
                       mul_add(4698910, a_, mul_add(5387708, b_, -4248946)),
                       mul_add(10023010, -b_, -2137049)),
                     mul_add(1751984, b_, -2195574)),
                   mul_add(4159012, b_, 7447790))),
      112396 + FDiv(One,
                 mul_add(a_,
                   mul_add(a_,
                     mul_add(a_,
                       mul_add(146619, -a_, mul_add(453996, -b_, 2992)),
                       mul_add(612240, b_, -270879)),
                     mul_add(901481, b_, 403706)),
                   mul_add(681244, -b_, 1613203)))>>

st_max(cusp) == <<FDiv(cusp[2], cusp[1]), FDiv(cusp[2], One - cusp[1])>>

\* (1 / (1/x^p + 1/y^p))^(1/p) for p = 2 (Root = sqrt) and p = 4 (Root = sqrt sqrt),
\* evaluated as min / Root(1 + (min/max)^p), which is the same real number and
\* keeps its digits in fixed point
SoftRatio(lo, hi) == IF hi <= 0 THEN 0 ELSE FDiv(lo, hi)

SoftRoot2(lo, q) == IF lo <= 0 THEN 0 ELSE FDiv(lo, sqrt(One + FMul(q, q)))

SoftMin2(x, y) == SoftRoot2(Min(x, y), SoftRatio(Min(x, y), Max(x, y)))

SoftRoot4(lo, q2) == IF lo <= 0 THEN 0 ELSE FDiv(lo, sqrt(sqrt(One + FMul(q2, q2))))

SoftSquare(lo, q) == SoftRoot4(lo, FMul(q, q))

SoftMin4(x, y) == SoftSquare(Min(x, y), SoftRatio(Min(x, y), Max(x, y)))

\* get_cs: c_0, c_mid and c_max from the cusp data
CsFrom(l, c_max, sm, mid) ==
    <<SoftMin2(FMul(l, 400000), FMul(One - l, 800000)),
      FMul(FMul(900000, FDiv(c_max, Min(FMul(l, sm[1]), FMul(One - l, sm[2])))),
           SoftMin4(FMul(l, mid[1]), FMul(One - l, mid[2]))),
      c_max>>

CsAt(l, a_, b_, cusp) ==
    CsFrom(l, find_gamut_intersection(a_, b_, l, One, l, cusp), st_max(cusp), st_mid(a_, b_))

get_cs(l, a_, b_) == CsAt(l, a_, b_, find_cusp(a_, b_))

\* okhsl_to_oklab: the chroma k_0 + t k_1 / (1 - k_2 t)
LabChroma(t, k_0, k_1, k_2) == k_0 + FDiv(FMul(t, k_1), mul_add(k_2, -t, One))

LabK2(s, t, k_0, k_1, c_mid, c_max) ==
    LabChroma(t, k_0, k_1,
        IF s < 800000 THEN One - FDiv(k_1, c_mid) ELSE One - FDiv(k_1, c_max - c_mid))

\* okhsl_to_oklab: t, k_0 and k_1 of the two saturation segments
LabSegment(s, cs) ==
    LabK2(s,
        IF s < 800000 THEN FMul(1250000, s) ELSE 5 * (s - 800000),
        IF s < 800000 THEN 0 ELSE cs[2],
        IF s < 800000 THEN FMul(800000, cs[1])
        ELSE FDiv(FMul(FMul(200000, FMul(cs[2], cs[2])), 1562500), cs[1]),
        cs[2], cs[3])

LabScaled(l, a_, b_, ch) == Oklab(l, FMul(ch, a_), FMul(ch, b_))

LabAt(s, l, a_, b_) == LabScaled(l, a_, b_, LabSegment(s, get_cs(l, a_, b_)))

okhsl_to_oklab(c) ==
    IF c.lightness <= 0 \/ c.lightness >= One THEN Oklab(c.lightness, 0, 0)
    ELSE LabAt(c.saturation, toe_inv(c.lightness),
               cos(FMul(2 * PI, c.hue)), sin(FMul(2 * PI, c.hue)))

\* the scale that brings the larger of |a|, |b| to at least 0.1
RECURSIVE UnitScale(_, _)
UnitScale(m, k) == IF m * k >= One \div 10 \/ m = 0 THEN k ELSE UnitScale(m, k * 10)

HueUnit(ak, bk, ck) == <<FDiv(ak, ck), FDiv(bk, ck)>>

HueScaled(ak, bk) == HueUnit(ak, bk, sqrt(FMul(ak, ak) + FMul(bk, bk)))

HueNormal(a, b, k) == HueScaled(a * k, b * k)

\* hue(b, a): <<h, a_, b_, c>>
hue(b, a) ==
    <<mul_add(atan2(-b, -a) \div 2, FDiv(One, PI), One \div 2)>>
    \o HueNormal(a, b, UnitScale(Max(Abs(a), Abs(b)), 1))
    \o <<sqrt(FMul(a, a) + FMul(b, b))>>

\* oklab_to_okhsl: the saturation t 0.8 resp. 0.8 + 0.2 t
HslSaturation(c, c_mid, k_0, k_1, k_2) ==
    IF c < c_mid
    THEN FMul(FDiv(c - k_0, mul_add(k_2, c - k_0, k_1)), 800000)
    ELSE mul_add(200000, FDiv(c - k_0, mul_add(k_2, c - k_0, k_1)), 800000)

HslK2(c, c_mid, c_max, k_0, k_1) ==
    HslSaturation(c, c_mid, k_0, k_1,
        IF c < c_mid THEN One - FDiv(k_1, c_mid) ELSE One - FDiv(k_1, c_max - c_mid))

\* oklab_to_okhsl: k_0 and k_1 of the two chroma segments
HslSegment(c, cs) ==
    HslK2(c, cs[2], cs[3],
        IF c < cs[2] THEN 0 ELSE cs[2],
        IF c < cs[2] THEN FMul(800000, cs[1])
        ELSE FDiv(FMul(FMul(200000, FMul(cs[2], cs[2])), 1562500), cs[1]))

HslAt(l, hc) == Okhsl(hc[1], HslSegment(hc[4], get_cs(l, hc[2], hc[3])), toe(l))

oklab_to_okhsl(lab) ==
    IF ~(lab.l > 0 /\ lab.l < One /\ (lab.a # 0 \/ lab.b # 0))
    THEN Okhsl(0, 0, lab.l)
    ELSE HslAt(lab.l, hue(lab.b, lab.a))

to_okhsl(rgb) == oklab_to_okhsl(linear_srgb_to_oklab(rgb))

from_color(rgb) == to_okhsl(rgb)

to_srgb(c) == to_linear_srgb(okhsl_to_oklab(c))

to_u8(c) == from_linear(to_srgb(c))

(***************************************************************************)
(* apca.rs: the contrast estimator.  The file is not part of the sources;  *)
(* it is modelled from its documented convention (APCA, signed Lc, more    *)
(* negative = darker background under light text).                         *)
(***************************************************************************)
WHITE == <<255, 255, 255>>

\* screen luminance of an 8-bit colour
srgb_to_y(rgb) ==
    mul_add(72175, powf(FDiv(rgb[3] * One, 255 * One), 2400000),
        mul_add(715152, powf(FDiv(rgb[2] * One, 255 * One), 2400000),
            FMul(212673, powf(FDiv(rgb[1] * One, 255 * One), 2400000))))

\* soft clamp of very dark luminances
black_clamp(y) == IF y >= 22000 THEN y ELSE y + powf(22000 - y, 1414000)


\* the signed contrast from the soft-clamped luminances and the raw SAPC value
LcScaled(y_txt, y_bg, sapc) ==
    IF Abs(y_bg - y_txt) < 500 THEN 0
    ELSE IF y_bg > y_txt
         THEN (IF sapc < 100000 THEN 0 ELSE (sapc - 27000) * 100)
         ELSE (IF sapc > -100000 THEN 0 ELSE (sapc + 27000) * 100)

LcFrom(y_txt, y_bg) ==
    LcScaled(y_txt, y_bg,
        IF y_bg > y_txt
        THEN FMul(powf(y_bg, 560000) - powf(y_txt, 570000), 1140000)
        ELSE FMul(powf(y_bg, 650000) - powf(y_txt, 620000), 1140000))

\* signed contrast of text colour txt on background bg
estimate_lc(txt, bg) == LcFrom(black_clamp(srgb_to_y(txt)), black_clamp(srgb_to_y(bg)))

(***************************************************************************)
(* tokens.rs: ThemeColor.  A value of the enum is a record: its variant    *)
(* name and, for Custom, the payload (presets carry <<0, 0, 0>> there).    *)
(***************************************************************************)
Preset(name) == [label |-> name, custom |-> <<0, 0, 0>>]

Custom(c) == [label |-> "Custom", custom |-> c]

\* the presets in the order of their declaration
Presets ==
    <<"Gray", "EguiBlue", "Tomato", "Red", "Ruby", "Crimson", "Pink", "Plum", "Purple",
      "Violet", "Iris", "Indigo", "Blue", "Cyan", "Teal", "Jade", "Green", "Grass",
      "Brown", "Bronze", "Gold", "Orange">>

rgb(v) ==
    CASE v.label = "Gray" -> <<117, 117, 117>>
      [] v.label = "EguiBlue" -> <<0, 109, 143>>
      [] v.label = "Tomato" -> <<229, 77, 46>>
      [] v.label = "Red" -> <<229, 72, 77>>
      [] v.label = "Ruby" -> <<229, 70, 102>>
      [] v.label = "Crimson" -> <<233, 61, 130>>
      [] v.label = "Pink" -> <<214, 64, 159>>
      [] v.label = "Plum" -> <<171, 74, 186>>
      [] v.label = "Purple" -> <<142, 78, 198>>
      [] v.label = "Violet" -> <<110, 86, 207>>
      [] v.label = "Iris" -> <<91, 91, 214>>
      [] v.label = "Indigo" -> <<62, 99, 214>>
      [] v.label = "Blue" -> <<0, 144, 255>>
      [] v.label = "Cyan" -> <<0, 162, 199>>
      [] v.label = "Teal" -> <<18, 165, 148>>
      [] v.label = "Jade" -> <<41, 163, 131>>
      [] v.label = "Green" -> <<48, 164, 108>>
      [] v.label = "Grass" -> <<70, 167, 88>>
      [] v.label = "Brown" -> <<173, 127, 88>>
      [] v.label = "Bronze" -> <<161, 128, 114>>
      [] v.label = "Gold" -> <<151, 131, 101>>
      [] v.label = "Orange" -> <<247, 107, 21>>
      [] v.label = "Custom" -> v.custom

get_srgb(v) == into_linear(rgb(v))

(***************************************************************************)
(* The seed colours explored: the 22 presets and five Custom colours (a    *)
(* light yellow, a pale gray, white, black and a near-black blue).         *)
(***************************************************************************)
Palette ==
    [k \in 1 .. Len(Presets) |-> Preset(Presets[k])]
    \o <<Custom(<<232, 210, 7>>), Custom(<<245, 245, 245>>),
         Custom(<<255, 255, 255>>), Custom(<<0, 0, 0>>), Custom(<<10, 10, 40>>)>>

Seeds == {Palette[k] : k \in 1 .. Len(Palette)}

(***************************************************************************)
(* scales.rs: Scales.  The arrays are functions on 0..11.  Three fields    *)
(* are history variables of the last draw_scale call: panicked (a clamp    *)
(* was evaluated with min > max), nudge_purple and nudge_magenta (the      *)
(* indices whose lightness received the 0.011 resp. 0.01 nudge).           *)
(***************************************************************************)
Indices == 0 .. 11

ScalesDefault ==
    [custom        |-> [h |-> 0, s |-> 0, v |-> 0],
     okhsl         |-> [i \in Indices |-> Okhsl(0, 0, 0)],
     rgbs          |-> [i \in Indices |-> LinSrgb(0, 0, 0)],
     srgb          |-> LinSrgb(0, 0, 0),
     scale         |-> [i \in Indices |-> <<0, 0, 0>>],
     dark_mode     |-> FALSE,
     panicked      |-> FALSE,
     nudge_purple  |-> {},
     nudge_magenta |-> {}]

\* the conversions the generator asks for, tabulated once per seed: the
\* operators of scales.rs take the tables as their parameter cv
SeedLin == {get_srgb(v) : v \in Seeds}

light_lighten_values == <<965000, 900000, 820000, 750000, 630000, 510000, 390000, 270000>>

light_clamp_v == <<990000, 980000, 970000, 950000, 930000, 900000, 880000, 850000>>

light_darken_values == <<100000, 200000, 550000>>

dark_darken_values == <<975000, 960000, 930000, 890000, 830000, 750000, 640000, 390000>>

dark_clamp_s == <<300000, 500000, 800000, One, One, 950000, 700000, 800000>>

dark_clamp_s2 == <<140000, 160000, 440000, 620000, 610000, 560000, 520000, 510000>>

dark_clamp_l == <<80000, 100000, 150000, 190000, 230000, 290000, 360000, 470000>>

dark_lighten_values == <<95000, 450000, 750000>>

FromColorArgs ==
    SeedLin
    \cup {LinLighten(c, light_lighten_values[k]) : c \in SeedLin, k \in 1 .. 8}
    \cup {LinDarken(c, dark_darken_values[k]) : c \in SeedLin, k \in 1 .. 8}

FromColorTable == [c \in FromColorArgs |-> from_color(c)]

SeedHsl == {FromColorTable[c] : c \in SeedLin}

SeedU8Table == [c \in SeedHsl |-> to_u8(c)]

\* Okhsl::from_color; cv.from_color tabulates it on the colours the explored
\* seeds give, any other colour is converted directly
Okhsl_from_color(cv, c) ==
    IF c \in DOMAIN cv.from_color THEN cv.from_color[c] ELSE from_color(c)

\* Okhsl::to_u8; cv.to_u8 tabulates it like cv.from_color
Okhsl_to_u8(cv, c) ==
    IF c \in DOMAIN cv.to_u8 THEN cv.to_u8[c] ELSE to_u8(c)

\* `hue as u8`: the cast truncates and saturates
hue_as_u8(h) == Min(255, Max(0, h \div One))

sat_val(h8) ==
    IF h8 >= 159 /\ h8 <= 216 THEN FMul(FDiv((h8 - 159) * One, 58 * One), 250000)
    ELSE IF h8 >= 100 /\ h8 <= 158 THEN FMul(FDiv((158 - h8) * One, 58 * One), 250000)
    ELSE 250000

sat_clamp(h8) ==
    IF h8 >= 100 /\ h8 <= 158 THEN FMul(FDiv((h8 - 100) * One, 58 * One), 120000)
    ELSE IF h8 >= 159 /\ h8 <= 217 THEN FMul(FDiv((217 - h8) * One, 58 * One), 120000)
    ELSE 0


\* light_scale: the hue shift of the warm seeds (0 < hue < 90)
LightWarm(o, i, seed_hue) ==
    IF i # 8 /\ seed_hue > 0 /\ seed_hue < 90 * One
    THEN [o EXCEPT !.hue = from_degrees(as_degrees(o) + 10 * One - i * One)]
    ELSE o

\* light_scale: the hue shift of the cool seeds (200 < hue < 280)
LightCool(o, i, seed_hue) ==
    IF i # 8 /\ seed_hue > 200 * One /\ seed_hue < 280 * One
    THEN [o EXCEPT !.hue = from_degrees(as_degrees(o) - 10 * One - i * One)]
    ELSE o

\* light_scale: the entry of index i before the saturation rule, from the
\* conversion o the loop makes for it
LightPlace(o, i, seed_hue) ==
    IF i <= 8
    THEN LightCool(LightWarm(o, i, seed_hue), i, seed_hue)
    ELSE OkhslDarken(o, light_darken_values[i - 8])

\* light_scale: Okhsl::from_color(self.rgbs[i]) for i in 0..9 and
\* Okhsl::from_color(srgb) for i in 9..12
LightEntry(cv, self, i, seed_hue, srgb) ==
    LightPlace(Okhsl_from_color(cv, IF i <= 8 THEN self.rgbs[i] ELSE srgb), i, seed_hue)

\* the saturation rule restricted to the indices below 8
LightSaturationFirst(o, i, hsl, h8) ==
    IF i < 8 /\ hsl.saturation > 10000 /\ hsl.lightness > 10000
    THEN [o EXCEPT !.saturation =
             clamp(FMul(hsl.saturation, hsl.lightness) + sat_val(h8),
                   100000, One - sat_clamp(h8))]
    ELSE o

\* light_scale: the saturation rule of every index but 8
LightSaturation(o, i, hsl, h8) ==
    IF i # 8 /\ hsl.saturation > 10000 /\ hsl.lightness > 10000
    THEN [o EXCEPT !.saturation =
             clamp(FMul(hsl.saturation, hsl.lightness) + sat_val(h8),
                   100000, One - sat_clamp(h8))]
    ELSE o

\* the entry with its lightness left as converted
LightLightnessKept(o, i, hsl) == o

\* light_scale: the lightness clamp of indices 0..7 under a very light seed
LightLightness(o, i, hsl) ==
    IF i # 8 /\ i < 8 /\ hsl.lightness > 790000
    THEN [o EXCEPT !.lightness =
             clamp(@, light_clamp_v[i + 1] - 800000, light_clamp_v[i + 1])]
    ELSE o

\* light_scale: a clamp of index i is called with min > max
LightPanics(i, hsl, h8) ==
    \/ (i # 8 /\ hsl.saturation > 10000 /\ hsl.lightness > 10000
        /\ 100000 > One - sat_clamp(h8))
    \/ (i < 8 /\ hsl.lightness > 790000
        /\ light_clamp_v[i + 1] - 800000 > light_clamp_v[i + 1])

\* light_scale, the body of `for i in 0..12`
light_body(cv, self, i, hsl, seed_hue, srgb) ==
    [self EXCEPT
        !.okhsl[i] = LightLightness(
                        LightSaturation(LightEntry(cv, self, i, seed_hue, srgb),
                                        i, hsl, hue_as_u8(seed_hue)),
                        i, hsl),
        !.panicked = @ \/ LightPanics(i, hsl, hue_as_u8(seed_hue))]

RECURSIVE light_loop(_, _, _, _, _, _)
light_loop(cv, self, i, hsl, seed_hue, srgb) ==
    IF i = 12 THEN self
    ELSE light_loop(cv, light_body(cv, self, i, hsl, seed_hue, srgb),
                    i + 1, hsl, seed_hue, srgb)

\* entry 9 left as the loop made it
LightAccent9Kept(self) == self

\* light_scale: entry 9 follows the relit entry 8
LightAccent9(self) ==
    [self EXCEPT !.okhsl[9].lightness = FMul(self.okhsl[8].lightness, 900000),
                 !.okhsl[9].saturation = FMul(self.okhsl[8].saturation, 900000)]

\* the relit branch taken for every seed
light_accent_relit(cv, self, hsl) ==
    LightAccent9([self EXCEPT !.okhsl[8].lightness = 680000])

\* light_scale, the branch on the contrast of the seed against white
light_accent(cv, self, hsl) ==
    IF estimate_lc(WHITE, Okhsl_to_u8(cv, hsl)) > -46 * One
    THEN LightAccent9([self EXCEPT !.okhsl[8].lightness = 680000])
    ELSE [self EXCEPT !.okhsl[9].saturation = self.okhsl[8].saturation]

\* light_scale: the two lightness edits after the loop, then the contrast branch
LightFinish(cv, self, hsl) ==
    light_accent(cv, [self EXCEPT !.okhsl[10].lightness = clamp(@, 430000, 500000),
                                  !.okhsl[11].lightness = FMul(@, 900000)], hsl)

\* light_scale: rgbs[0..7] = srgb.lighten(lighten_values[i])
LightRgbs(self, srgb) ==
    [self EXCEPT !.rgbs = [i \in Indices |->
        IF i < 8 THEN LinLighten(srgb, light_lighten_values[i + 1]) ELSE @[i]]]

\* light_scale from `self.okhsl[8] = hsl` on
LightFrom(cv, self, hsl) ==
    LightFinish(cv,
                light_loop(cv, LightRgbs([self EXCEPT !.okhsl[8] = hsl], self.srgb),
                           0, hsl, as_degrees(hsl), self.srgb),
                hsl)

\* light_scale from `let hsl = Okhsl::from_color(self.srgb)` on
LightSeed(cv, self) == LightFrom(cv, self, Okhsl_from_color(cv, self.srgb))

\* light_scale up to its last loop, which draw_scale applies (export_scale)
light_scale(cv, self) ==
    LightSeed(cv, [self EXCEPT !.rgbs[8] = self.srgb,
                               !.panicked = FALSE, !.nudge_purple = {}, !.nudge_magenta = {}])

\* the bitwise or of two naturals
RECURSIVE BitOr(_, _)
BitOr(m, n) ==
    IF m = 0 THEN n
    ELSE IF n = 0 THEN m
    ELSE (IF m % 2 = 1 \/ n % 2 = 1 THEN 1 ELSE 0) + 2 * BitOr(m \div 2, n \div 2)

\* dark_scale: (259.0..=323.).contains(&hue)
DarkPurple(seed_hue) == seed_hue >= 259 * One /\ seed_hue <= 323 * One

\* dark_scale: (323.0..=350.).contains(&hue) && i == (6 | 7)
DarkMagenta(seed_hue, i) ==
    seed_hue >= 323 * One /\ seed_hue <= 350 * One /\ i = BitOr(6, 7)

\* dark_scale: the two lightness nudges
DarkNudge(o, i, seed_hue) ==
    IF DarkMagenta(seed_hue, i)
    THEN OkhslLighten(IF DarkPurple(seed_hue)
                      THEN OkhslLighten(o, FMul((i + 1) * One, 11000)) ELSE o,
                      FMul((i + 1) * One, 10000))
    ELSE IF DarkPurple(seed_hue)
         THEN OkhslLighten(o, FMul((i + 1) * One, 11000)) ELSE o

\* dark_scale: saturation *= 1.0 + ((1.0 - hsl.saturation) * 2.)
DarkBoost(o, hsl) ==
    [o EXCEPT !.saturation = FMul(@, One + FMul(One - hsl.saturation, 2 * One))]

\* dark_scale: the lower bound of the saturation clamp of index i
DarkSatMin(i, hsl) == IF hsl.saturation > 360000 THEN dark_clamp_s2[i + 1] ELSE 0

\* hsl.saturation * clamp_s[i] in both branches
DarkSatMaxRaw(i, hsl) == FMul(hsl.saturation, dark_clamp_s[i + 1])

\* dark_scale: the upper bound of the saturation clamp of index i
DarkSatMax(i, hsl) ==
    IF hsl.saturation > 360000
    THEN clamp(FMul(hsl.saturation, dark_clamp_s[i + 1]), dark_clamp_s2[i + 1] + 10000, One)
    ELSE FMul(hsl.saturation, dark_clamp_s[i + 1])

\* dark_scale: the upper bound of the lightness clamp of index i
DarkLightMax(i, hsl) ==
    clamp(FMul(dark_clamp_l[i + 1], 1710000 - hsl.saturation),
          dark_clamp_l[i + 1] + 10000, One)

\* the saturation clamp alone
DarkClampSaturation(o, i, hsl) ==
    [o EXCEPT !.saturation = clamp(@, DarkSatMin(i, hsl), DarkSatMax(i, hsl))]

\* the lightness clamp alone
DarkClampLightness(o, i, hsl) ==
    [o EXCEPT !.lightness = clamp(@, dark_clamp_l[i + 1], DarkLightMax(i, hsl))]

\* dark_scale: the two clamps that end the body of the first loop
DarkClamp(o, i, hsl) ==
    [o EXCEPT !.saturation = clamp(@, DarkSatMin(i, hsl), DarkSatMax(i, hsl)),
              !.lightness = clamp(@, dark_clamp_l[i + 1], DarkLightMax(i, hsl))]

\* dark_scale: a clamp of index i is called with min > max
DarkPanics(i, hsl) ==
    \/ (hsl.saturation > 360000 /\ dark_clamp_s2[i + 1] + 10000 > One)
    \/ DarkSatMin(i, hsl) > DarkSatMax(i, hsl)
    \/ dark_clamp_l[i + 1] + 10000 > One
    \/ dark_clamp_l[i + 1] > DarkLightMax(i, hsl)

\* dark_scale, the body of `for i in 0..8`
dark_body(cv, self, i, hsl, seed_hue) ==
    [self EXCEPT
        !.rgbs[i] = LinDarken(self.srgb, dark_darken_values[i + 1]),
        !.okhsl[i] = DarkClamp(
                        DarkBoost(
                            DarkNudge(Okhsl_from_color(
                                          cv, LinDarken(self.srgb, dark_darken_values[i + 1])),
                                      i, seed_hue),
                            hsl),
                        i, hsl),
        !.panicked = @ \/ DarkPanics(i, hsl),
        !.nudge_purple = IF DarkPurple(seed_hue) THEN @ \cup {i} ELSE @,
        !.nudge_magenta = IF DarkMagenta(seed_hue, i) THEN @ \cup {i} ELSE @]

RECURSIVE dark_loop(_, _, _, _, _)
dark_loop(cv, self, i, hsl, seed_hue) ==
    IF i = 8 THEN self
    ELSE dark_loop(cv, dark_body(cv, self, i, hsl, seed_hue), i + 1, hsl, seed_hue)

\* the entry without the warm shift
DarkWarmNone(o, i, seed_hue) == o

\* dark_scale: the hue shift of the warm and magenta seeds
DarkWarm(o, i, seed_hue) ==
    IF (seed_hue >= 0 /\ seed_hue <= 90 * One)
       \/ (seed_hue >= 300 * One /\ seed_hue <= 350 * One)
    THEN [o EXCEPT !.hue = from_degrees(as_degrees(o) + FMul(2 * One, (i - 8) * One))]
    ELSE o

\* dark_scale: the hue shift of the green and blue seeds
DarkCool(o, i, seed_hue) ==
    IF seed_hue >= 100 * One /\ seed_hue <= 280 * One
    THEN [o EXCEPT !.hue = from_degrees(as_degrees(o) - FMul(2 * One, (i - 8) * One))]
    ELSE o

\* the body of `for i in 9..12` lightening the entry in place
dark_tail_body_in_place(self, i, hsl, seed_hue) ==
    [self EXCEPT !.okhsl[i] =
        DarkCool(DarkWarm(OkhslLighten(self.okhsl[i], dark_lighten_values[i - 8]),
                          i, seed_hue),
                 i, seed_hue)]

\* dark_scale, the body of `for i in 9..12`
dark_tail_body(self, i, hsl, seed_hue) ==
    [self EXCEPT !.okhsl[i] =
        DarkCool(DarkWarm(OkhslLighten(hsl, dark_lighten_values[i - 8]), i, seed_hue),
                 i, seed_hue)]

RECURSIVE dark_tail_loop(_, _, _, _)
dark_tail_loop(self, i, hsl, seed_hue) ==
    IF i = 12 THEN self
    ELSE dark_tail_loop(dark_tail_body(self, i, hsl, seed_hue), i + 1, hsl, seed_hue)

\* entry 9 left as the loop made it
DarkAccent9Kept(self, hsl) == self

\* dark_scale: entry 9 of a near-black seed
DarkAccent9(self, hsl) ==
    [self EXCEPT !.okhsl[9] =
        [OkhslLighten(self.okhsl[9], 250000) EXCEPT !.saturation = hsl.saturation]]

\* the branch taken above the threshold instead of below it
dark_accent_above(cv, self, hsl) ==
    IF estimate_lc(WHITE, Okhsl_to_u8(cv, hsl)) > -95400000
    THEN DarkAccent9([self EXCEPT !.okhsl[8] =
                         [OkhslLighten(hsl, 300000) EXCEPT !.saturation =
                             clamp(FMul(hsl.saturation, 1250000), 0, One)]], hsl)
    ELSE self

\* dark_scale, the branch on the contrast of the seed against white
dark_accent(cv, self, hsl) ==
    IF estimate_lc(WHITE, Okhsl_to_u8(cv, hsl)) < -95400000
    THEN DarkAccent9([self EXCEPT !.okhsl[8] =
                         [OkhslLighten(hsl, 300000) EXCEPT !.saturation =
                             clamp(FMul(hsl.saturation, 1250000), 0, One)]], hsl)
    ELSE self

\* dark_scale: (115.0..=220.).contains(&hue), the saturation caps of entries 11 and 10
DarkCyan(self, hsl, seed_hue) ==
    IF seed_hue >= 115 * One /\ seed_hue <= 220 * One
    THEN [self EXCEPT
             !.okhsl[11].saturation = clamp(@, 0, FMul(hsl.saturation, 750000)),
             !.okhsl[10].saturation = clamp(@, 0, FMul(hsl.saturation, 900000)),
             !.panicked = @ \/ 0 > FMul(hsl.saturation, 750000)
                            \/ 0 > FMul(hsl.saturation, 900000)]
    ELSE self

\* dark_scale: the edits after the two loops, then the contrast branch
DarkFinish(cv, self, hsl, seed_hue) ==
    dark_accent(cv,
                DarkCyan([self EXCEPT !.okhsl[10].lightness = clamp(@, 730000, One),
                                      !.okhsl[11].lightness = clamp(@, 880000, One)],
                         hsl, seed_hue),
                hsl)

\* dark_scale from `self.okhsl[8] = hsl` on
DarkFrom(cv, self, hsl, seed_hue) ==
    DarkFinish(cv,
               dark_tail_loop(dark_loop(cv, [self EXCEPT !.okhsl[8] = hsl], 0, hsl, seed_hue),
                              9, hsl, seed_hue),
               hsl, seed_hue)

\* dark_scale from `let hsl = Okhsl::from_color(self.srgb)` on
DarkSeed(cv, self, hsl) == DarkFrom(cv, self, hsl, as_degrees(hsl))

\* dark_scale up to its last loop, which draw_scale applies (export_scale)
dark_scale(cv, self) ==
    DarkSeed(cv, [self EXCEPT !.rgbs[8] = self.srgb,
                              !.panicked = FALSE, !.nudge_purple = {}, !.nudge_magenta = {}],
             Okhsl_from_color(cv, self.srgb))


(***************************************************************************)
(* scales.rs: clamp_custom, the limits put on the colour picker's value    *)
(***************************************************************************)
\* lower limit of v, from the saturation
v_clamp(s) ==
    IF 0 <= s /\ s <= 300000
    THEN mul_add(FDiv(0 - 130000, 300000 - 0), s - 0, 130000)
    ELSE IF 300000 <= s /\ s <= One
    THEN mul_add(FDiv(130000 - 0, One - 300000), s - 300000, 0)
    ELSE 0

\* lower limit of s, from the value
s_clamp(v) ==
    IF 0 <= v /\ v <= 130000
    THEN mul_add(FDiv(0 - 300000, 130000 - 0), v - 0, 300000)
    ELSE IF 130000 <= v /\ v <= One
    THEN mul_add(FDiv(300000 - 0, One - 130000), v - 130000, 0)
    ELSE 0

\* the limit of s taken from the value after its own clamp
clamp_custom_in_turn(self) ==
    [self EXCEPT
        !.custom = [h |-> self.custom.h,
                    s |-> clamp(self.custom.s,
                                s_clamp(clamp(self.custom.v, v_clamp(self.custom.s), 990000)),
                                One),
                    v |-> clamp(self.custom.v, v_clamp(self.custom.s), 990000)]]

\* both limits come from the fields as they are on entry; f32::clamp panics
\* when its lower limit exceeds the upper one
clamp_custom(self) ==
    [self EXCEPT
        !.custom = [h |-> self.custom.h,
                    s |-> clamp(self.custom.s, s_clamp(self.custom.v), One),
                    v |-> clamp(self.custom.v, v_clamp(self.custom.s), 990000)],
        !.panicked = self.panicked \/ v_clamp(self.custom.s) > 990000
                        \/ s_clamp(self.custom.v) > One]
\* the tables without the exported entries
SeedConversions == [from_color |-> FromColorTable, to_u8 |-> SeedU8Table]

\* the Hsl-like values the last loops convert
ScaleHsl ==
    UNION {{light_scale(SeedConversions, [ScalesDefault EXCEPT !.srgb = c]).okhsl[i]
               : i \in Indices}
           \cup {dark_scale(SeedConversions, [ScalesDefault EXCEPT !.srgb = c]).okhsl[i]
               : i \in Indices}
           : c \in SeedLin}

Conversions ==
    [from_color |-> FromColorTable,
     to_u8      |-> [c \in SeedHsl \cup ScaleHsl |->
                        IF c \in SeedHsl THEN SeedU8Table[c] ELSE to_u8(c)]]

\* the last loop of light_scale and of dark_scale: scale[i] = okhsl[i].to_u8()
export_scale(cv, self) ==
    [self EXCEPT !.scale = [i \in Indices |-> Okhsl_to_u8(cv, self.okhsl[i])]]

draw_scale(cv, self) ==
    export_scale(cv, IF self.dark_mode THEN dark_scale(cv, self) ELSE light_scale(cv, self))

process_color(cv, self, v) == draw_scale(cv, [self EXCEPT !.srgb = get_srgb(v)])


(***************************************************************************)
(* tokens.rs: ColorTokens.  A Color32 built by from_rgb is <<r, g, b>>;    *)
(* one that carries an alpha other than 255 is <<r, g, b, a>>.             *)
(***************************************************************************)
TRANSPARENT == <<0, 0, 0, 0>>

ColorTokensDefault ==
    [app_background                    |-> TRANSPARENT,
     subtle_background                 |-> TRANSPARENT,
     ui_element_background             |-> TRANSPARENT,
     hovered_ui_element_background     |-> TRANSPARENT,
     active_ui_element_background      |-> TRANSPARENT,
     subtle_borders_and_separators     |-> TRANSPARENT,
     ui_element_border_and_focus_rings |-> TRANSPARENT,
     hovered_ui_element_border         |-> TRANSPARENT,
     solid_backgrounds                 |-> TRANSPARENT,
     hovered_solid_backgrounds         |-> TRANSPARENT,
     low_contrast_text                 |-> TRANSPARENT,
     high_contrast_text                |-> TRANSPARENT,
     inverse_color                     |-> FALSE,
     on_accent                         |-> TRANSPARENT,
     dark_mode                         |-> FALSE]

update_schema(self, i, fill) ==
    CASE i = 0 -> [self EXCEPT !.app_background = fill]
      [] i = 1 -> [self EXCEPT !.subtle_background = fill]
      [] i = 2 -> [self EXCEPT !.ui_element_background = fill]
      [] i = 3 -> [self EXCEPT !.hovered_ui_element_background = fill]
      [] i = 4 -> [self EXCEPT !.active_ui_element_background = fill]
      [] i = 5 -> [self EXCEPT !.subtle_borders_and_separators = fill]
      [] i = 6 -> [self EXCEPT !.ui_element_border_and_focus_rings = fill]
      [] i = 7 -> [self EXCEPT !.hovered_ui_element_border = fill]
      [] i = 8 -> [self EXCEPT !.solid_backgrounds = fill]
      [] i = 9 -> [self EXCEPT !.hovered_solid_backgrounds = fill]
      [] i = 10 -> [self EXCEPT !.low_contrast_text = fill]
      [] i = 11 -> [self EXCEPT !.high_contrast_text = fill]
      [] OTHER -> self

get_token(self, i) ==
    CASE i = 0 -> self.app_background
      [] i = 1 -> self.subtle_background
      [] i = 2 -> self.ui_element_background
      [] i = 3 -> self.hovered_ui_element_background
      [] i = 4 -> self.active_ui_element_background
      [] i = 5 -> self.subtle_borders_and_separators
      [] i = 6 -> self.ui_element_border_and_focus_rings
      [] i = 7 -> self.hovered_ui_element_border
      [] i = 8 -> self.solid_backgrounds
      [] i = 9 -> self.hovered_solid_backgrounds
      [] i = 10 -> self.low_contrast_text
      [] i = 11 -> self.high_contrast_text
      [] OTHER -> TRANSPARENT

\* Hsva::from(Color32): the hue before wrapping, from the linear channels and
\* their minimum lo and maximum hi
HsvHue(c, lo, hi) ==
    IF hi = lo THEN 0
    ELSE IF hi = c.red THEN FDiv(c.green - c.blue, 6 * (hi - lo))
    ELSE IF hi = c.green THEN FDiv(c.blue - c.red, 6 * (hi - lo)) + One \div 3
    ELSE FDiv(c.red - c.green, 6 * (hi - lo)) + (2 * One) \div 3

\* (h + 1.0).fract() for h in (-1, 1)
HsvWrap(h) == IF h < 0 THEN h + One ELSE h

hsv_hue(c) ==
    HsvWrap(HsvHue(c, Min(c.red, Min(c.green, c.blue)), Max(c.red, Max(c.green, c.blue))))

\* Color32::from(Hsva): the sector k = floor(6 h) and the fraction f = 6 h - k
HsvSector(k, f, s, v) ==
    CASE k % 6 = 0 -> LinSrgb(v, FMul(v, One - FMul(One - f, s)), FMul(v, One - s))
      [] k % 6 = 1 -> LinSrgb(FMul(v, One - FMul(f, s)), v, FMul(v, One - s))
      [] k % 6 = 2 -> LinSrgb(FMul(v, One - s), v, FMul(v, One - FMul(One - f, s)))
      [] k % 6 = 3 -> LinSrgb(FMul(v, One - s), FMul(v, One - FMul(f, s)), v)
      [] k % 6 = 4 -> LinSrgb(FMul(v, One - FMul(One - f, s)), FMul(v, One - s), v)
      [] k % 6 = 5 -> LinSrgb(v, FMul(v, One - s), FMul(v, One - FMul(f, s)))

rgb_from_hsv(h, s, v) == HsvSector((6 * h) \div One, (6 * h) % One, clamp(s, 0, One), v)

\* color_on_accent: solid_backgrounds as Hsva with s = 0.7 and v = 0.01, as Color32
accent_foreground(c) == from_linear(rgb_from_hsv(hsv_hue(into_linear(c)), 700000, 10000))

color_on_accent(self) ==
    IF estimate_lc(WHITE, self.solid_backgrounds) > -46 * One
    THEN [self EXCEPT !.inverse_color = TRUE,
                      !.on_accent = accent_foreground(self.solid_backgrounds)]
    ELSE [self EXCEPT !.on_accent = WHITE]

\* set_egui_style: the colours it writes into the style
set_egui_style(self) ==
    [selection_bg_fill        |-> self.solid_backgrounds,
     selection_stroke         |-> self.on_accent,
     text_cursor              |-> self.low_contrast_text,
     noninteractive_bg_fill   |-> self.subtle_background,
     noninteractive_bg_stroke |-> self.subtle_borders_and_separators,
     noninteractive_fg_stroke |-> self.low_contrast_text,
     inactive_bg_fill         |-> self.ui_element_background,
     inactive_fg_stroke       |-> self.low_contrast_text,
     hovered_bg_fill          |-> self.hovered_ui_element_background,
     hovered_bg_stroke        |-> self.hovered_ui_element_border,
     hovered_fg_stroke        |-> self.high_contrast_text,
     active_bg_fill           |-> self.active_ui_element_background,
     active_bg_stroke         |-> self.ui_element_border_and_focus_rings,
     active_fg_stroke         |-> self.high_contrast_text,
     extreme_bg_color         |-> self.app_background,
     faint_bg_color           |-> self.app_background,
     code_bg_color            |-> self.ui_element_background,
     window_fill              |-> self.subtle_background,
     window_stroke            |-> self.subtle_borders_and_separators,
     panel_fill               |-> self.subtle_background,
     hyperlink_color          |-> self.hovered_solid_backgrounds,
     window_shadow            |-> IF self.dark_mode THEN <<0, 0, 0, 96>> ELSE <<0, 0, 0, 25>>]

\* set_ctx_visuals on the context cx
set_ctx_visuals(self, cx) == [cx EXCEPT !.style = set_egui_style(self)]

(***************************************************************************)
(* animator.rs: ColorAnimator.  anim_id is TRUE once the id was created.   *)
(* The context keeps one animated value, cx.anim, for that id.  The field  *)
(* restarts is a history variable: the number of calls of restart.         *)
(***************************************************************************)
\* the four channels of a Color32
Rgba(c) == IF Len(c) = 3 THEN c \o <<255>> ELSE c

from_rgba_premultiplied(r, g, b, a) == IF a = 255 THEN <<r, g, b>> ELSE <<r, g, b, a>>

\* egui::lerp(a..=b, t) as u8
LerpU8(a, b, t) == ((One - t) * a + t * b) \div One

LerpChannels(s, e, t) ==
    from_rgba_premultiplied(LerpU8(s[1], e[1], t), LerpU8(s[2], e[2], t),
                            LerpU8(s[3], e[3], t), LerpU8(s[4], e[4], t))

interpolate_color(start, end, interpolation) ==
    LerpChannels(Rgba(start), Rgba(end), interpolation)

\* #[derive(Default)]
ColorAnimatorDefault ==
    [anim_id               |-> FALSE,
     progress              |-> 0,
     token_shift           |-> FALSE,
     animation_done        |-> FALSE,
     animation_in_progress |-> FALSE,
     values_1              |-> <<TRANSPARENT, TRANSPARENT, TRANSPARENT>>,
     values_2              |-> <<TRANSPARENT, TRANSPARENT, TRANSPARENT>>,
     tokenshifts           |-> <<TRANSPARENT, TRANSPARENT, TRANSPARENT>>,
     tokens                |-> ColorTokensDefault,
     animated_tokens       |-> ColorTokensDefault,
     shadow                |-> TRANSPARENT,
     apply_to              |-> "ExtraScale",
     restarts              |-> 0]

\* ColorAnimator::new(tokens)
ColorAnimatorNew(tokens) ==
    [ColorAnimatorDefault EXCEPT !.token_shift = TRUE, !.animation_done = TRUE,
                                 !.tokens = tokens, !.animated_tokens = tokens,
                                 !.apply_to = "Global"]

\* Context::animate_value_with_time(anim_id, target, time) after the time
\* share dt has passed: the value moves to the target, at once when time = 0
animate_value_with_time(cx, target, time, dt) ==
    [cx EXCEPT !.anim = IF time = 0 THEN target
                        ELSE IF @ <= target THEN Min(target, @ + dt)
                        ELSE Max(target, @ - dt)]

\* the fields of ColorTokens that set_egui_animation interpolates
AnimatedFields ==
    {"app_background", "subtle_background", "ui_element_background",
     "hovered_ui_element_background", "active_ui_element_background",
     "subtle_borders_and_separators", "ui_element_border_and_focus_rings",
     "hovered_ui_element_border", "solid_backgrounds", "hovered_solid_backgrounds",
     "low_contrast_text", "high_contrast_text", "on_accent"}

\* set_egui_animation: the colour each field is interpolated towards
AnimationEnd(tokens, f) ==
    IF f = "ui_element_background" THEN tokens.subtle_background ELSE tokens[f]

\* set_egui_animation: values_1, values_2 and tokenshifts of the animator a
ShiftsOf(a) ==
    [a EXCEPT
        !.values_1 = [k \in 1 .. 3 |-> get_token(a.animated_tokens, <<6, 0, 7>>[k])],
        !.values_2 = [k \in 1 .. 3 |-> get_token(a.animated_tokens, <<8, 8, 6>>[k])],
        !.tokenshifts = [k \in 1 .. 3 |->
            IF a.token_shift
            THEN interpolate_color(get_token(a.animated_tokens, <<6, 0, 7>>[k]),
                                   get_token(a.animated_tokens, <<8, 8, 6>>[k]), a.progress)
            ELSE interpolate_color(get_token(a.animated_tokens, <<8, 8, 6>>[k]),
                                   get_token(a.animated_tokens, <<6, 0, 7>>[k]), a.progress)]]

\* the same, with the animator computed once
AnimateShifts(an) == CHOOSE r \in {ShiftsOf(a) : a \in {an}} : TRUE

\* set_egui_animation: the animated tokens and the shadow of the animator a
TokensOf(a, t, s) ==
    [a EXCEPT
        !.animated_tokens = [f \in DOMAIN a.animated_tokens |->
            IF f \in AnimatedFields
            THEN interpolate_color(a.tokens[f], AnimationEnd(t, f), a.progress)
            ELSE a.animated_tokens[f]],
        !.shadow = interpolate_color(a.shadow, s, a.progress)]

\* the same, with the animator, the target and the shadow computed once
AnimateTokens(an, tokens, shadow) ==
    CHOOSE r \in {TokensOf(a, t, s) : a \in {an}, t \in {tokens}, s \in {shadow}} : TRUE

\* an animation that is never over
AnimateOn(an) == an

\* set_egui_animation: at progress 1.0 the animation is over
AnimateEnd(an) ==
    IF an.progress = One
    THEN [an EXCEPT !.tokens = an.animated_tokens, !.animation_done = TRUE,
                    !.animation_in_progress = FALSE, !.token_shift = ~an.token_shift]
    ELSE an

\* set_egui_animation: the style is written for ApplyTo::Global and
\* ApplyTo::Local
AnimateStyle(an, style) ==
    IF an.apply_to \in {"Global", "Local"}
    THEN [set_egui_style(an.animated_tokens) EXCEPT !.window_shadow = an.shadow]
    ELSE style

\* the pair <<ColorAnimator, Context>> is the record [an, cx]; a is the
\* animator after the interpolation
set_egui_animation(st, tokens, shadow) ==
    CHOOSE r \in {[an |-> AnimateEnd(a),
                   cx |-> [p.cx EXCEPT !.style = AnimateStyle(a, p.cx.style)]] :
                      p \in {st},
                      a \in {AnimateTokens(AnimateShifts(st.an), tokens, shadow)}} : TRUE

\* animate: `if self.progress == 1.0 { ctx.animate_value_with_time(anim_id, 0.0, 0.0) }`
AnimateReset(st) ==
    CHOOSE r \in {IF p.an.progress = One
                  THEN [p EXCEPT !.cx = animate_value_with_time(p.cx, 0, 0, 0)]
                  ELSE p : p \in {st}} : TRUE

\* animate: self.progress = ctx.animate_value_with_time(anim_id, 1.0, animation_time)
AnimateProgress(st) ==
    CHOOSE r \in {[p EXCEPT !.an.progress = p.cx.anim] : p \in {st}} : TRUE

\* animate(Some(ctx), None, tokens); dt is the share of animation_time that
\* passed since the last frame
animate(st, tokens, dt) ==
    IF st.an.animation_done \/ ~st.an.anim_id THEN st
    ELSE AnimateReset(
            set_egui_animation(
                AnimateProgress([st EXCEPT !.cx = animate_value_with_time(@, One, 2300000, dt)]),
                tokens,
                IF st.cx.dark_mode THEN <<0, 0, 0, 96>> ELSE <<0, 0, 0, 25>>))

\* apply_local_ui: the style written from the animated tokens
apply_local_ui(an) ==
    [set_egui_style(an.animated_tokens) EXCEPT !.window_shadow = an.shadow]

\* set_egui_animation(ui.style_mut(), tokens, shadow); the context st.cx
\* holds the Ui that is drawn as its field ui
UiAnimation(st, tokens, shadow) ==
    CHOOSE r \in {[an |-> AnimateEnd(a),
                   cx |-> [p.cx EXCEPT !.ui.style = AnimateStyle(a, @)]] :
                      p \in {st},
                      a \in {AnimateTokens(AnimateShifts(st.an), tokens, shadow)}} : TRUE

\* a finished animation that leaves the Ui alone
AnimateDoneIdle(st) == st

\* animate(None, Some(ui), tokens): the branch of a finished animation
AnimateDone(st) ==
    IF st.an.apply_to = "Local"
    THEN [st EXCEPT !.cx.ui.style = apply_local_ui(st.an)]
    ELSE st

\* animate(None, Some(ui), tokens)
animate_ui(st, tokens, dt) ==
    IF st.an.animation_done THEN AnimateDone(st)
    ELSE IF ~st.an.anim_id THEN st
    ELSE AnimateReset(
            UiAnimation(
                AnimateProgress([st EXCEPT !.cx = animate_value_with_time(@, One, 2300000, dt)]),
                tokens,
                IF st.cx.ui.dark_mode THEN <<0, 0, 0, 96>> ELSE <<0, 0, 0, 25>>))

\* create_id
create_id(st) ==
    [an |-> [st.an EXCEPT !.anim_id = TRUE], cx |-> animate_value_with_time(st.cx, 0, 0, 0)]

\* set_animate(None, Some(ui), tokens)
set_animate_ui(st, tokens, dt) ==
    IF ~st.an.anim_id THEN create_id(st) ELSE animate_ui(st, tokens, dt)

\* set_animate(Some(ctx), None, tokens)
set_animate(st, tokens, dt) ==
    IF ~st.an.anim_id THEN create_id(st) ELSE animate(st, tokens, dt)

\* a restart that keeps the start tokens
RestartKept(st) ==
    [an |-> [st.an EXCEPT !.token_shift = ~st.an.token_shift, !.restarts = @ + 1],
     cx |-> IF st.an.anim_id THEN animate_value_with_time(st.cx, 0, 0, 0) ELSE st.cx]

\* restart, up to its call of start
RestartFirst(st) ==
    [an |-> [st.an EXCEPT !.tokens = st.an.animated_tokens,
                          !.token_shift = ~st.an.token_shift,
                          !.restarts = @ + 1],
     cx |-> IF st.an.anim_id THEN animate_value_with_time(st.cx, 0, 0, 0) ELSE st.cx]

\* a start that leaves animation_in_progress as it is
start_unmarked(st) ==
    [IF st.an.animation_in_progress THEN RestartFirst(st) ELSE st
        EXCEPT !.an.animation_done = FALSE]

\* start: a running animation is restarted from the animated tokens
start(st) ==
    [IF st.an.animation_in_progress THEN RestartFirst(st) ELSE st
        EXCEPT !.an.animation_done = FALSE, !.an.animation_in_progress = TRUE]

\* restart that leaves the two flags as they are
RestartUnmarked(st) == RestartFirst(st)

\* restart, its body before the call of start
RestartBody(st) ==
    [RestartFirst(st) EXCEPT !.an.animation_done = TRUE,
                             !.an.animation_in_progress = FALSE]

\* start, its body: the call of restart is left to the caller of StartBody
StartBody(st) ==
    IF st.an.animation_in_progress
    THEN [st EXCEPT !.an.animation_done = FALSE]
    ELSE [st EXCEPT !.an.animation_done = FALSE, !.an.animation_in_progress = TRUE]

\* restart, called on its own: the flags it sets, then its call of start
restart(st) ==
    start([RestartFirst(st) EXCEPT !.an.animation_done = TRUE,
                                   !.an.animation_in_progress = FALSE])

(***************************************************************************)
(* lib.rs: Colorix, made by Colorix::global or Colorix::extra_scale.       *)
(* A theme is a function on 0..11.  The field called is a history          *)
(* variable: the public entry point that ran last.  A state of the pair    *)
(* <<Colorix, Context>> is the record [self, cx].                          *)
(***************************************************************************)
ColorixDefault ==
    [tokens   |-> ColorTokensDefault,
     theme    |-> [i \in Indices |-> Preset("Gray")],
     scales   |-> ScalesDefault,
     animated |-> FALSE,
     animator |-> ColorAnimatorDefault,
     apply_to |-> "ExtraScale",
     called   |-> "default"]

set_colorix_mode(self, mode) ==
    [self EXCEPT !.scales.dark_mode = mode, !.tokens.dark_mode = mode]

\* the loop over theme[i + 1..] giving every later occurrence the colour of index i
RECURSIVE ProcessLaterFirst(_, _, _)
ProcessLaterFirst(st, i, k) ==
    IF k \notin DOMAIN st.self.theme THEN st
    ELSE ProcessLaterFirst(
            IF st.self.theme[k] = st.self.theme[i]
            THEN [self |-> [st.self EXCEPT
                              !.tokens = update_schema(@, k, st.self.scales.scale[i])],
                  processed |-> st.processed \cup {k}]
            ELSE st,
            i, k + 1)

\* process_theme: the loop over theme[i + 1..], at absolute index k
RECURSIVE ProcessLater(_, _, _)
ProcessLater(st, i, k) ==
    IF k \notin DOMAIN st.self.theme THEN st
    ELSE ProcessLater(
            IF st.self.theme[k] = st.self.theme[i]
            THEN [self |-> [st.self EXCEPT
                              !.tokens = update_schema(@, k, st.self.scales.scale[k])],
                  processed |-> st.processed \cup {k}]
            ELSE st,
            i, k + 1)

\* process_theme: tokens.update_schema(i, scales.scale[i])
ProcessFirst(self, i) ==
    [self EXCEPT !.tokens = update_schema(@, i, self.scales.scale[i])]

\* process_theme: the body of the loop over the theme
ProcessIndex(cv, st, i) ==
    IF i \in st.processed THEN st
    ELSE ProcessLater(
            [st EXCEPT !.self =
                ProcessFirst([st.self EXCEPT
                                 !.scales = process_color(cv, @, st.self.theme[i])], i)],
            i, i + 1)

RECURSIVE ProcessLoop(_, _, _)
ProcessLoop(cv, st, i) ==
    IF i \notin DOMAIN st.self.theme THEN st ELSE ProcessLoop(cv, ProcessIndex(cv, st, i), i + 1)

process_theme(cv, self) == ProcessLoop(cv, [self |-> self, processed |-> {}], 0).self

\* update_colors: the tokens reach the style of the context
ApplyTokens(st) == [st EXCEPT !.cx = set_ctx_visuals(st.self.tokens, st.cx)]

\* update_colors, update_color: animator.start(ctx) of an animated instance
StartAnimator(st) ==
    [self |-> [st.self EXCEPT !.animator = start([an |-> @, cx |-> st.cx]).an],
     cx   |-> start([an |-> st.self.animator, cx |-> st.cx]).cx]

\* update_colors, update_color: the branch on self.animated
ShowTokens(st) == IF st.self.animated THEN StartAnimator(st) ELSE ApplyTokens(st)

\* update_colors(Some(ctx), None)
update_colors(cv, st) ==
    ShowTokens([st EXCEPT !.self =
        [process_theme(cv, st.self) EXCEPT !.tokens = color_on_accent(@)]])

\* update_color(ui, i) for ApplyTo::Global and ApplyTo::ExtraScale
update_color(cv, st, i) ==
    ShowTokens([st EXCEPT !.self =
        [ProcessFirst([st.self EXCEPT !.scales = process_color(cv, @, st.self.theme[i])], i)
            EXCEPT !.tokens = color_on_accent(@)]])

\* Colorix::global(ctx, theme)
global(cv, cx, theme) ==
    update_colors(
        cv,
        [self |-> set_colorix_mode(
                     [ColorixDefault EXCEPT !.theme = theme, !.apply_to = "Global",
                                            !.called = "global"],
                     cx.dark_mode),
         cx |-> cx])

\* Colorix::animated(): init_animator
animated(st) ==
    [st EXCEPT !.self.animated = TRUE,
               !.self.animator = [ColorAnimatorNew(st.self.tokens)
                                     EXCEPT !.apply_to = st.self.apply_to]]

\* Colorix::shift_tokens(ctx)
shift_tokens(st) == StartAnimator([st EXCEPT !.self.called = "shift_tokens"])

\* colorix.animator.restart(ctx): the field animator and restart are public
animator_restart(st) ==
    [self |-> [st.self EXCEPT !.animator = restart([an |-> @, cx |-> st.cx]).an,
                              !.called = "restart"],
     cx   |-> restart([an |-> st.self.animator, cx |-> st.cx]).cx]

\* Colorix::set_animator(ctx), called once a frame
set_animator(st, dt) ==
    IF st.self.animated
    THEN CHOOSE r \in {[self |-> [p.self EXCEPT !.animator = q.an,
                                                !.called = "set_animator"],
                        cx   |-> q.cx] :
                           p \in {st},
                           q \in {set_animate([an |-> st.self.animator, cx |-> st.cx],
                                              st.self.tokens, dt)}} : TRUE
    ELSE [st EXCEPT !.self.called = "set_animator"]

\* the Ui a frame makes: its style is a copy of the context's
UiNew(cx) == [dark_mode |-> cx.dark_mode, style |-> cx.style]

\* the context while the Ui of this frame is drawn
WithUi(cx) ==
    [f \in DOMAIN cx \cup {"ui"} |-> IF f = "ui" THEN UiNew(cx) ELSE cx[f]]

\* update_colors(None, Some(ui)) of an instance that is not animated: the
\* tokens reach the style of the Ui
ApplyTokensUi(st) == [st EXCEPT !.cx.ui.style = set_egui_style(st.self.tokens)]

\* update_colors(None, Some(ui))
ShowTokensUi(st) == IF st.self.animated THEN StartAnimator(st) ELSE ApplyTokensUi(st)

update_colors_ui(cv, st) ==
    ShowTokensUi([st EXCEPT !.self =
        [process_theme(cv, st.self) EXCEPT !.tokens = color_on_accent(@)]])

\* Colorix::local(ui, theme)
local(cv, cx, theme) ==
    update_colors_ui(
        cv,
        [self |-> [set_colorix_mode([ColorixDefault EXCEPT !.theme = theme,
                                                            !.called = "local"],
                                    cx.dark_mode)
                      EXCEPT !.apply_to = "Local"],
         cx |-> WithUi(cx)])

\* update_locally(ui): the animator of an animated instance
LocalAnimator(st, dt) ==
    CHOOSE r \in {[self |-> [p.self EXCEPT !.animator = q.an], cx |-> q.cx] :
                      p \in {st},
                      q \in {set_animate_ui([an |-> st.self.animator, cx |-> st.cx],
                                            st.self.tokens, dt)}} : TRUE

\* Colorix::update_locally(ui), called once a frame
update_locally(cv, st, dt) ==
    IF st.self.apply_to # "Local" THEN st
    ELSE IF st.self.animated
    THEN LocalAnimator([st EXCEPT !.self.called = "update_locally"], dt)
    ELSE update_colors_ui(cv, [st EXCEPT !.self.called = "update_locally"])

\* one frame of an application: a new Ui, then set_animator(ctx) and
\* update_locally(ui)
frame(cv, st, dt) ==
    update_locally(cv, set_animator([st EXCEPT !.cx = WithUi(@)], dt), dt)

\* draw_background: the colours of the top and of the bottom vertices
BackgroundTop(self) ==
    IF self.animated THEN self.animator.animated_tokens.app_background
    ELSE self.tokens.app_background

BackgroundBottom(self, accent) ==
    IF accent THEN self.animator.animated_tokens.active_ui_element_background
    ELSE IF self.animated THEN self.animator.animated_tokens.ui_element_background
    ELSE self.tokens.ui_element_background

\* Colorix::draw_background(ctx, accent): the mesh added to the background layer
draw_background(st, accent) ==
    [self |-> [st.self EXCEPT !.called = "draw_background"],
     cx   |-> [st.cx EXCEPT !.background =
                  [accent |-> accent, top |-> BackgroundTop(st.self),
                   bottom |-> BackgroundBottom(st.self, accent)]]]

update_theme(cv, st, theme) ==
    update_colors(cv, [st EXCEPT !.self.theme = theme, !.self.called = "update_theme"])

\* Colorix::extra_scale(ctx, theme)
extra_scale(cv, cx, theme) ==
    update_colors(
        cv,
        [self |-> set_colorix_mode(
                     [ColorixDefault EXCEPT !.theme = theme, !.apply_to = "ExtraScale",
                                            !.called = "extra_scale"],
                     cx.dark_mode),
         cx |-> cx])

\* set_ui_mode: the context's dark_mode for ApplyTo::Global, nothing for
\* ApplyTo::ExtraScale
set_ui_mode(self, cx, mode) ==
    IF self.apply_to = "Global" THEN [cx EXCEPT !.dark_mode = mode] ELSE cx

set_dark(cv, st) ==
    update_colors(cv, [self |-> set_colorix_mode([st.self EXCEPT !.called = "set_dark"], TRUE),
                       cx |-> set_ui_mode(st.self, st.cx, TRUE)])

set_light(cv, st) ==
    update_colors(cv, [self |-> set_colorix_mode([st.self EXCEPT !.called = "set_light"],
                                                 FALSE),
                       cx |-> set_ui_mode(st.self, st.cx, FALSE)])

\* Scales::custom(): the picker colour (an Hsva) as 8-bit rgb
custom(self) == from_linear(rgb_from_hsv(self.custom.h, self.custom.s, self.custom.v))

\* ui_combo_12: the 23 entries of every dropdown
dropdown_colors(self) ==
    [k \in 1 .. Len(Presets) |-> Preset(Presets[k])] \o <<Custom(custom(self.scales))>>

\* ui_combo_12: a click on entry k of the dropdown of row i
combo_select(cv, st, i, k) ==
    update_color(cv, [st EXCEPT !.self.theme[i] = dropdown_colors(st.self)[k],
                                !.self.called = "ui_combo_12"], i)

\* ui_combo_12: the colour edit button of a Custom row i changes its rgb
combo_edit(cv, st, i, c) ==
    update_color(cv, [st EXCEPT !.self.theme[i] = Custom(c), !.self.called = "ui_combo_12"], i)

(***************************************************************************)
(* The themes and inputs explored.                                         *)
(***************************************************************************)
Yellow == Custom(<<232, 210, 7>>)

Navy == Custom(<<10, 10, 40>>)

\* [v; 12]
Uniform(v) == [i \in Indices |-> v]

\* a theme whose colours recur at indices that are not adjacent
Mixed ==
    [i \in Indices |-> IF i \in {0, 3, 8} THEN Yellow
                       ELSE IF i \in {1, 5, 11} THEN Preset("Pink") ELSE Preset("Blue")]

Themes == {Uniform(Preset("Blue")), Uniform(Yellow), Mixed}

\* utils.rs: the preset themes of the themes dropdown and their names, two
\* lists of one length
THEMES == <<Uniform(Preset("Blue")), Mixed>>

THEME_NAMES == <<"Blue", "Mixed">>

\* the custom_themes argument of themes_dropdown: None (the empty tuple) or
\* Some((names, themes))
CustomThemes ==
    {<<>>,
     [names |-> <<>>, themes |-> <<>>],
     [names |-> <<"Yellow">>, themes |-> <<Uniform(Yellow)>>]}

\* Colorix with its field theme_index, 0 by #[derive(Default)]
WithIndex(self) ==
    [f \in DOMAIN self \cup {"theme_index"} |-> IF f = "theme_index" THEN 0 ELSE self[f]]

\* get_theme_index: the position of the theme in THEMES, if it has one
get_theme_index(self) ==
    IF \E k \in DOMAIN THEMES : THEMES[k] = self.theme
    THEN [self EXCEPT !.theme_index =
             (CHOOSE k \in DOMAIN THEMES :
                 /\ THEMES[k] = self.theme
                 /\ \A j \in 1 .. k - 1 : THEMES[j] # self.theme) - 1]
    ELSE self

\* Colorix::global(ctx, theme) with theme_index
global_indexed(cv, cx, theme) ==
    [global(cv, cx, theme) EXCEPT !.self = get_theme_index(WithIndex(@))]

\* Colorix::update_theme(ctx, theme) with theme_index
update_theme_indexed(cv, st, theme) ==
    update_theme(cv, [st EXCEPT !.self = get_theme_index([@ EXCEPT !.theme = theme])],
                 theme)

\* themes_dropdown: combi_themes and combi_names
combi_themes(given, custom_only) ==
    IF given = <<>> THEN THEMES
    ELSE IF custom_only THEN given.themes
    ELSE THEMES \o given.themes

combi_names(given, custom_only) ==
    IF given = <<>> THEN THEME_NAMES
    ELSE IF custom_only THEN given.names
    ELSE THEME_NAMES \o given.names

\* themes_dropdown: entry i (from 0) of the open dropdown is clicked
DropdownClick(cv, st, given, custom_only, i) ==
    update_colors(cv, [st EXCEPT !.self.theme = combi_themes(given, custom_only)[i + 1],
                                 !.self.theme_index = i])

\* themes_dropdown(ui, custom_themes, custom_only): combi_names[theme_index]
\* panics when the index is out of bounds; click is -1 when nothing is
\* clicked
themes_dropdown(cv, st, given, custom_only, click) ==
    IF st.self.theme_index >= Len(combi_names(given, custom_only)) \/ click < 0 THEN st
    ELSE DropdownClick(cv, st, given, custom_only, click)

\* the rows of ui_combo_12 that are operated
ComboRows == {8, 11}

\* the entries of dropdown_colors that are clicked: Blue and Custom
DropdownPicks == {13, 23}

\* the colours picked with the colour edit button of a Custom row
PickerColors == {<<10, 10, 40>>}

\* the toolkit's style before any Colorix wrote to it; its colours are not
\* modelled and stand as transparent
StyleDefault == [k \in DOMAIN set_egui_style(ColorTokensDefault) |-> TRANSPARENT]

\* a context: no animated value, nothing painted on the background layer
ContextNew(m) == [dark_mode |-> m, style |-> StyleDefault, anim |-> 0, background |-> <<>>]

Contexts == {ContextNew(m) : m \in BOOLEAN}

(***************************************************************************)
(* State.  scales is a Scales object owned by a client of scales.rs;       *)
(* drawn records the last process_color call on it, <<seed, dark_mode,     *)
(* over>>, where over tells what the object held before the call ("none",  *)
(* "light" or "dark" scale), or <<>> before the first call.  colorix is a  *)
(* Colorix and ctx the egui context it applies to.  call records the last  *)
(* call of a free function or of clamp_custom, [fn, arg, out], or <<>>.    *)
(* Each specification drives one of the objects and leaves the others as   *)
(* constructed.                                                            *)
(***************************************************************************)
VARIABLES scales, drawn, colorix, ctx, call

vars == <<scales, drawn, colorix, ctx, call>>

ScalesInit ==
    /\ scales = ScalesDefault
    /\ drawn = <<>>
    /\ colorix = ColorixDefault
    /\ ctx = ContextNew(FALSE)
    /\ call = <<>>

\* Scales::process_color(v)
ProcessColor(cv, v) ==
    /\ scales' = process_color(cv, scales, v)
    /\ drawn' = <<v, scales.dark_mode,
                  IF drawn = <<>> THEN "none" ELSE IF drawn[2] THEN "dark" ELSE "light">>
    /\ UNCHANGED <<colorix, ctx, call>>

\* the assignment `scales.dark_mode = mode` (as in Colorix::set_colorix_mode)
SetDarkMode(mode) ==
    /\ scales' = [scales EXCEPT !.dark_mode = mode]
    /\ UNCHANGED <<drawn, colorix, ctx, call>>

ScalesNext ==
    \E cv \in {Conversions} :
        \/ \E v \in Seeds : ProcessColor(cv, v)
        \/ \E mode \in BOOLEAN : SetDarkMode(mode)

SpecScales == ScalesInit /\ [][ScalesNext]_vars

\* the pair <<Colorix, Context>> as the methods take it
Pair == [self |-> colorix, cx |-> ctx]

\* the state after Colorix::global(ctx, theme)
Init ==
    /\ scales = ScalesDefault
    /\ drawn = <<>>
    /\ call = <<>>
    /\ \E st \in {global(Conversions, cx, theme) : cx \in Contexts, theme \in Themes} :
          /\ colorix = st.self
          /\ ctx = st.cx

UpdateTheme(cv, theme) ==
    /\ \E st \in {update_theme(cv, Pair, theme)} : colorix' = st.self /\ ctx' = st.cx
    /\ UNCHANGED <<scales, drawn, call>>

SetDark(cv) ==
    /\ \E st \in {set_dark(cv, Pair)} : colorix' = st.self /\ ctx' = st.cx
    /\ UNCHANGED <<scales, drawn, call>>

SetLight(cv) ==
    /\ \E st \in {set_light(cv, Pair)} : colorix' = st.self /\ ctx' = st.cx
    /\ UNCHANGED <<scales, drawn, call>>

ComboSelect(cv, i, k) ==
    /\ \E st \in {combo_select(cv, Pair, i, k)} : colorix' = st.self /\ ctx' = st.cx
    /\ UNCHANGED <<scales, drawn, call>>

ComboEdit(cv, i, c) ==
    /\ colorix.theme[i].label = "Custom"
    /\ \E st \in {combo_edit(cv, Pair, i, c)} : colorix' = st.self /\ ctx' = st.cx
    /\ UNCHANGED <<scales, drawn, call>>

Next ==
    \E cv \in {Conversions} :
        \/ \E theme \in Themes : UpdateTheme(cv, theme)
        \/ SetDark(cv)
        \/ SetLight(cv)
        \/ \E i \in ComboRows : \E k \in DropdownPicks : ComboSelect(cv, i, k)
        \/ \E i \in ComboRows : \E c \in PickerColors : ComboEdit(cv, i, c)

Spec == Init /\ [][Next]_vars


\* the state after Colorix::extra_scale(ctx, theme)
ExtraInit ==
    /\ scales = ScalesDefault
    /\ drawn = <<>>
    /\ call = <<>>
    /\ \E st \in {extra_scale(Conversions, cx, theme) : cx \in Contexts, theme \in Themes} :
          /\ colorix = st.self
          /\ ctx = st.cx

SpecExtra == ExtraInit /\ [][Next]_vars

(***************************************************************************)
(* The instances Colorix::global(ctx, theme) and                           *)
(* Colorix::global(ctx, theme).animated(), with set_animator called at the *)
(* start of every frame.  The toolkit drops the shapes painted in a frame  *)
(* when the next one begins.                                               *)
(***************************************************************************)
\* the shares of the animation time that pass between two frames
FrameShares == {0, One \div 2, One}

\* the number of times a running animation is restarted by a new theme
MaxRestarts == 1

AnimatedInit ==
    /\ scales = ScalesDefault
    /\ drawn = <<>>
    /\ call = <<>>
    /\ \E st \in {global(Conversions, cx, theme) : cx \in Contexts, theme \in Themes}
                \cup {animated(global(Conversions, cx, theme)) :
                         cx \in Contexts, theme \in Themes} :
          /\ colorix = st.self
          /\ ctx = st.cx

\* update_theme, with the restarts of a running animation bounded
UpdateAnimated(cv, theme) ==
    /\ colorix.animator.animation_in_progress => colorix.animator.restarts < MaxRestarts
    /\ UpdateTheme(cv, theme)

Frame(dt) ==
    /\ \E st \in {set_animator(Pair, dt)} :
          /\ colorix' = st.self
          /\ ctx' = [st.cx EXCEPT !.background = <<>>]
    /\ UNCHANGED <<scales, drawn, call>>

DrawBackground(accent) ==
    /\ \E st \in {draw_background(Pair, accent)} : colorix' = st.self /\ ctx' = st.cx
    /\ UNCHANGED <<scales, drawn, call>>

AnimatedNext ==
    \/ \E cv \in {Conversions} : \E theme \in Themes : UpdateAnimated(cv, theme)
    \/ \E dt \in FrameShares : Frame(dt)
    \/ \E accent \in BOOLEAN : DrawBackground(accent)

SpecAnimated == AnimatedInit /\ [][AnimatedNext]_vars

(***************************************************************************)
(* Animated instances of the three kinds, drawn frame by frame.            *)
(***************************************************************************)
KindsInit ==
    /\ scales = ScalesDefault
    /\ drawn = <<>>
    /\ call = <<>>
    /\ \E st \in {animated(local(Conversions, cx, theme)) :
                     cx \in Contexts, theme \in Themes}
                \cup {animated(global(Conversions, cx, theme)) :
                         cx \in Contexts, theme \in Themes}
                \cup {animated(extra_scale(Conversions, cx, theme)) :
                         cx \in Contexts, theme \in Themes} :
          /\ colorix = st.self
          /\ ctx = IF "ui" \in DOMAIN st.cx THEN st.cx ELSE WithUi(st.cx)

\* update_theme between two animations
UpdateKind(cv, theme) ==
    /\ ~colorix.animator.animation_in_progress
    /\ UpdateTheme(cv, theme)

\* a frame: the Ui of the last frame is gone, a new one is drawn
DrawFrame(cv, dt) ==
    /\ \E st \in {frame(cv, Pair, dt)} : colorix' = st.self /\ ctx' = st.cx
    /\ UNCHANGED <<scales, drawn, call>>

KindsNext ==
    \/ \E cv \in {Conversions} : \E theme \in Themes : UpdateKind(cv, theme)
    \/ \E cv \in {Conversions} : \E dt \in FrameShares : DrawFrame(cv, dt)

SpecKinds == KindsInit /\ [][KindsNext]_vars

(***************************************************************************)
(* An animated instance whose animator is started, restarted and animated. *)
(***************************************************************************)
StartsInit ==
    /\ scales = ScalesDefault
    /\ drawn = <<>>
    /\ call = <<>>
    /\ \E st \in {animated(global(Conversions, cx, theme)) :
                     cx \in {ContextNew(TRUE)}, theme \in Themes} :
          /\ colorix = st.self
          /\ ctx = st.cx

ShiftTokens ==
    /\ colorix.animator.animation_in_progress => colorix.animator.restarts < MaxRestarts
    /\ \E st \in {shift_tokens(Pair)} : colorix' = st.self /\ ctx' = st.cx
    /\ UNCHANGED <<scales, drawn, call>>

Restart ==
    /\ colorix.animator.restarts < MaxRestarts
    /\ \E st \in {animator_restart(Pair)} : colorix' = st.self /\ ctx' = st.cx
    /\ UNCHANGED <<scales, drawn, call>>

StartsNext ==
    \/ \E cv \in {Conversions} : \E theme \in Themes : UpdateAnimated(cv, theme)
    \/ ShiftTokens
    \/ Restart
    \/ \E dt \in FrameShares : Frame(dt)

SpecStarts == StartsInit /\ [][StartsNext]_vars

\* animated instances that set_animator animates
FramesInit ==
    /\ scales = ScalesDefault
    /\ drawn = <<>>
    /\ call = <<>>
    /\ \E st \in {animated(global(Conversions, cx, theme)) :
                     cx \in Contexts, theme \in Themes}
                \cup {animated(extra_scale(Conversions, cx, theme)) :
                         cx \in Contexts, theme \in Themes} :
          /\ colorix = st.self
          /\ ctx = st.cx

\* a theme is set between two animations, frames are drawn
FramesNext ==
    \/ \E cv \in {Conversions} : \E theme \in Themes : UpdateKind(cv, theme)
    \/ \E dt \in FrameShares : Frame(dt)

\* the application draws frame after frame, and time passes between them
SpecFrames ==
    /\ FramesInit
    /\ [][FramesNext]_vars
    /\ WF_vars(\E dt \in FrameShares \ {0} : Frame(dt))

(***************************************************************************)
(* start and restart call by call.  The variable call holds the stack of   *)
(* the calls that have not returned, the innermost first, and counts the   *)
(* calls of start and of restart made since shift_tokens was entered.      *)
(***************************************************************************)
CallsInit ==
    /\ scales = ScalesDefault
    /\ drawn = <<>>
    /\ call = <<>>
    /\ \E st \in {global(Conversions, cx, theme) : cx \in Contexts, theme \in Themes}
                \cup {animated(global(Conversions, cx, theme)) :
                         cx \in Contexts, theme \in Themes} :
          /\ colorix = st.self
          /\ ctx = st.cx

Running == call # <<>> /\ call.stack # <<>>

Returned == call # <<>> /\ call.stack = <<>>

AnimatorPair == [an |-> colorix.animator, cx |-> ctx]

\* shift_tokens is entered: it calls start
EnterStart ==
    /\ ~Running
    /\ colorix.animator.animation_in_progress => colorix.animator.restarts < MaxRestarts
    /\ call' = [stack |-> <<"start">>, starts |-> 1, restarts |-> 0, from |-> AnimatorPair]
    /\ colorix' = [colorix EXCEPT !.called = "shift_tokens"]
    /\ UNCHANGED <<scales, drawn, ctx>>

\* the body of start: it calls restart or sets the flags and returns
RunStart ==
    /\ Running
    /\ Head(call.stack) = "start"
    /\ colorix' = [colorix EXCEPT !.animator = StartBody(AnimatorPair).an]
    /\ call' = IF colorix.animator.animation_in_progress
               THEN [call EXCEPT !.stack = <<"restart", "in start">> \o Tail(@),
                                 !.restarts = @ + 1]
               ELSE [call EXCEPT !.stack = Tail(@)]
    /\ UNCHANGED <<scales, drawn, ctx>>

\* the body of restart: it calls start
RunRestart ==
    /\ Running
    /\ Head(call.stack) = "restart"
    /\ \E st \in {RestartBody(AnimatorPair)} :
          /\ colorix' = [colorix EXCEPT !.animator = st.an]
          /\ ctx' = st.cx
    /\ call' = [call EXCEPT !.stack = <<"start", "in restart">> \o Tail(@),
                            !.starts = @ + 1]
    /\ UNCHANGED <<scales, drawn>>

\* a call whose callee has returned returns itself
ReturnCall ==
    /\ Running
    /\ Head(call.stack) \in {"in start", "in restart"}
    /\ call' = [call EXCEPT !.stack = Tail(@)]
    /\ UNCHANGED <<scales, drawn, colorix, ctx>>

\* a frame, drawn when no call is running
CallsFrame(dt) ==
    /\ ~Running
    /\ \E st \in {set_animator(Pair, dt)} : colorix' = st.self /\ ctx' = st.cx
    /\ call' = <<>>
    /\ UNCHANGED <<scales, drawn>>

CallsNext ==
    \/ EnterStart
    \/ RunStart
    \/ RunRestart
    \/ ReturnCall
    \/ \E dt \in FrameShares : CallsFrame(dt)

\* a call that has begun runs on
SpecCalls ==
    /\ CallsInit
    /\ [][CallsNext]_vars
    /\ WF_vars(RunStart \/ RunRestart \/ ReturnCall)

(***************************************************************************)
(* The themes dropdown.  The variable call records the dropdown drawn      *)
(* last: the names it displays, the index it reads and whether it          *)
(* panicked.                                                               *)
(***************************************************************************)
ThemeChoices == Themes \cup {THEMES[k] : k \in DOMAIN THEMES}

ThemesInit ==
    /\ scales = ScalesDefault
    /\ drawn = <<>>
    /\ call = <<>>
    /\ \E st \in {global_indexed(Conversions, cx, theme) :
                     cx \in Contexts, theme \in ThemeChoices} :
          /\ colorix = st.self
          /\ ctx = st.cx

Panicked == call # <<>> /\ call.panicked

UpdateIndexed(cv, theme) ==
    /\ ~Panicked
    /\ \E st \in {update_theme_indexed(cv, Pair, theme)} :
          colorix' = st.self /\ ctx' = st.cx
    /\ UNCHANGED <<scales, drawn, call>>

\* themes_dropdown is drawn; entry click is clicked when it is displayed
ThemesDropdown(cv, given, custom_only, click) ==
    /\ ~Panicked
    /\ click < Len(combi_themes(given, custom_only))
    /\ call' = [fn |-> "themes_dropdown",
                names |-> combi_names(given, custom_only),
                index |-> colorix.theme_index,
                panicked |-> colorix.theme_index >= Len(combi_names(given, custom_only))]
    /\ \E st \in {themes_dropdown(cv, [Pair EXCEPT !.self.called = "themes_dropdown"],
                                   given, custom_only, click)} :
          colorix' = st.self /\ ctx' = st.cx
    /\ UNCHANGED <<scales, drawn>>

ThemesNext ==
    \/ \E cv \in {Conversions} : \E theme \in ThemeChoices : UpdateIndexed(cv, theme)
    \/ \E cv \in {Conversions} : \E given \in CustomThemes :
          \E custom_only \in BOOLEAN : \E click \in -1 .. 2 :
             ThemesDropdown(cv, given, custom_only, click)

SpecThemes == ThemesInit /\ [][ThemesNext]_vars

(***************************************************************************)
(* The free functions of color_space.rs and the colour picker's clamp,     *)
(* each applied to inputs from bounded sets.                               *)
(***************************************************************************)
\* hues in degrees, some outside of a turn
Degrees == {d * 5 * One : d \in -4 .. 76}

\* linear channel values, some outside of [0, 1]
LinearValues == {-One, -1, 0, 1, 3130, 3131, One \div 2, One - 1, One, One + 1, 2 * One}

\* picker values: hue, and saturation and value on a grid with the corners
\* of the limits
PickerHues == {0, One \div 2}

PickerGrid == {k * 100000 : k \in 0 .. 10} \cup {50000, 130000, 950000, 990000}

\* linear_f32_from_gamma_u8 of every byte, computed once
Decoded == [s \in 0 .. 255 |-> linear_f32_from_gamma_u8(s)]

\* seed hues in degrees at and around the limits of the dark nudges
NudgeHues == {d * One : d \in {258, 259, 260, 322, 323, 324, 350, 351}}

\* an entry of the dark scale before its nudges
NudgeEntry == Okhsl(900000, 500000, 200000)

\* Lab-like colours: the grays of lightness 0, 0.1 .. 1 and two with chroma
LabColours ==
    {Oklab(k * 100000, 0, 0) : k \in 0 .. 10}
    \cup {Oklab(600000, 100000, -50000), Oklab(300000, -20000, 40000)}

FunctionsInit == ScalesInit

FromDegrees(deg) ==
    /\ call' = [fn |-> "from_degrees", arg |-> deg, out |-> from_degrees(deg)]
    /\ UNCHANGED <<scales, drawn, colorix, ctx>>

Decode(s) ==
    /\ call' = [fn |-> "linear_f32_from_gamma_u8", arg |-> s,
                out |-> Decoded[s]]
    /\ UNCHANGED <<scales, drawn, colorix, ctx>>

Encode(l) ==
    /\ call' = [fn |-> "gamma_u8_from_linear_f32", arg |-> l,
                out |-> gamma_u8_from_linear_f32(l)]
    /\ UNCHANGED <<scales, drawn, colorix, ctx>>

\* the encoding of the value just decoded; arg is the byte that was decoded
EncodeDecoded ==
    /\ call # <<>>
    /\ call.fn = "linear_f32_from_gamma_u8"
    /\ call' = [fn |-> "round_trip", arg |-> call.arg,
                out |-> gamma_u8_from_linear_f32(call.out)]
    /\ UNCHANGED <<scales, drawn, colorix, ctx>>

LabToHsl(lab) ==
    /\ call' = [fn |-> "oklab_to_okhsl", arg |-> lab, out |-> oklab_to_okhsl(lab)]
    /\ UNCHANGED <<scales, drawn, colorix, ctx>>

\* the conversion back of the value just converted; arg is the Lab-like
\* colour that was converted
HslToLab ==
    /\ call # <<>>
    /\ call.fn = "oklab_to_okhsl"
    /\ call' = [fn |-> "lab_round_trip", arg |-> call.arg, via |-> call.out,
                out |-> okhsl_to_oklab(call.out)]
    /\ UNCHANGED <<scales, drawn, colorix, ctx>>

\* dark_scale: the two nudges of the first loop on entry i, for a seed whose
\* hue in degrees is seed_hue
DarkNudgeAt(seed_hue, i) ==
    /\ call' = [fn |-> "dark_nudge", arg |-> <<seed_hue, i>>,
                out |-> DarkNudge(NudgeEntry, i, seed_hue)]
    /\ UNCHANGED <<scales, drawn, colorix, ctx>>

\* Colorix::custom_picker: the picker sets scales.custom, then clamp_custom
CustomPicker(h, s, v) ==
    /\ \E self \in {clamp_custom([scales EXCEPT !.custom = [h |-> h, s |-> s, v |-> v]])} :
          /\ scales' = self
          /\ call' = [fn |-> "clamp_custom", arg |-> [h |-> h, s |-> s, v |-> v],
                      out |-> self.custom]
    /\ UNCHANGED <<drawn, colorix, ctx>>

FunctionsNext ==
    \/ \E deg \in Degrees : FromDegrees(deg)
    \/ \E s \in 0 .. 255 : Decode(s)
    \/ \E l \in LinearValues : Encode(l)
    \/ EncodeDecoded
    \/ \E lab \in LabColours : LabToHsl(lab)
    \/ HslToLab
    \/ \E seed_hue \in NudgeHues : \E i \in 0 .. 7 : DarkNudgeAt(seed_hue, i)

SpecFunctions == FunctionsInit /\ [][FunctionsNext]_vars

PickerNext ==
    \E h \in PickerHues : \E s \in PickerGrid : \E v \in PickerGrid : CustomPicker(h, s, v)

SpecPicker == FunctionsInit /\ [][PickerNext]_vars


(***************************************************************************)
(* Properties.  Seed is the Hsl-like value of the seed of the last         *)
(* process_color call and Fresh(v, m) the scale that call gives on a newly *)
(* constructed Scales in mode m.                                           *)
(***************************************************************************)
Seed == Okhsl_from_color(Conversions, get_srgb(drawn[1]))

SeedHue == as_degrees(Seed)

SeedLc == estimate_lc(WHITE, Okhsl_to_u8(Conversions, Seed))

DrewDark == drawn # <<>> /\ drawn[2]

DrewLight == drawn # <<>> /\ ~drawn[2]

Fresh(v, m) == process_color(Conversions, [ScalesDefault EXCEPT !.dark_mode = m], v)

PaleGray == Custom(<<245, 245, 245>>)

\* C1: scale generation has no memory: whatever calls and mode switches came
\* before, process_color(seed) leaves the 12 Hsl-like entries and the 12
\* exported colours that it gives on a newly constructed Scales of the same
\* mode, so the result depends on (seed, mode) only.
C1_NoMemory ==
    drawn # <<>> =>
        /\ scales.okhsl = Fresh(drawn[1], drawn[2]).okhsl
        /\ scales.scale = Fresh(drawn[1], drawn[2]).scale

\* a dark scale drawn over the light scale of another seed
C1_DarkOverLight ==
    /\ drawn # <<>>
    /\ drawn[3] = "light"
    /\ drawn[2]
    /\ drawn[1] = Preset("Pink")
    /\ scales.rgbs[0] # Fresh(Preset("Pink"), FALSE).rgbs[0]
    /\ scales.scale = Fresh(Preset("Pink"), TRUE).scale

\* C2: after any sequence of theme, single-colour and light/dark updates,
\* inverse_color is true and on_accent is the near-black foreground exactly
\* when lc(white, solid_backgrounds) > -46; otherwise inverse_color is false
\* and on_accent is white.
C2_AccentDecision ==
    IF estimate_lc(WHITE, colorix.tokens.solid_backgrounds) > -46 * One
    THEN /\ colorix.tokens.inverse_color
         /\ colorix.tokens.on_accent = accent_foreground(colorix.tokens.solid_backgrounds)
    ELSE /\ ~colorix.tokens.inverse_color
         /\ colorix.tokens.on_accent = WHITE

\* a blue accent after a yellow one in dark mode: white foreground, flag still set
C2_StaleInverse ==
    /\ colorix.called = "update_theme"
    /\ colorix.theme = Uniform(Preset("Blue"))
    /\ estimate_lc(WHITE, colorix.tokens.solid_backgrounds) <= -46 * One
    /\ colorix.tokens.on_accent = WHITE
    /\ colorix.tokens.inverse_color

\* the seeds of C3: saturation and lightness in [0, 1], hue in [0, 360]
SeedInRange ==
    /\ Seed.saturation >= 0 /\ Seed.saturation <= One
    /\ Seed.lightness >= 0 /\ Seed.lightness <= One
    /\ SeedHue >= 0 /\ SeedHue <= 360 * One

\* the values k/100 of [0, 1]
Fractions == {k * 10000 : k \in 0 .. 100}

\* C3: scale generation is total: in both modes, for every seed whose
\* saturation and lightness lie in [0, 1] and whose hue lies in [0, 360], no
\* clamp of light_scale or dark_scale is evaluated with min > max; the clamps
\* of the two loops have min <= max for every saturation k/100 and every hue.
C3_Total ==
    /\ drawn # <<>> /\ SeedInRange => ~scales.panicked
    /\ \A i \in 0 .. 7 : \A s \in Fractions : ~DarkPanics(i, Okhsl(0, s, One))
    /\ \A i \in Indices : \A h8 \in 0 .. 255 : ~LightPanics(i, Okhsl(0, One, One), h8)

\* a dark scale whose index 0 has seed.saturation * clamp_s[0] below clamp_s2[0]
C3_NarrowBand ==
    /\ DrewDark
    /\ SeedInRange
    /\ Seed.saturation > 360000
    /\ FMul(Seed.saturation, dark_clamp_s[1]) < dark_clamp_s2[1]
    /\ scales.okhsl[0].saturation >= dark_clamp_s2[1]

\* C4: after process_theme, for every index i in 0..11 the role token i is
\* entry i of the scale generated from theme[i] under the current mode, also
\* when a colour occurs at several indices; update_schema(i, c) changes the
\* token of role i only, and get_token(i) then returns c.
C4_RoleTokens ==
    /\ \A i \in Indices :
          get_token(colorix.tokens, i)
              = Fresh(colorix.theme[i], colorix.scales.dark_mode).scale[i]
    /\ \A i \in Indices : \A c \in {WHITE, <<1, 2, 3>>} :
          /\ get_token(update_schema(colorix.tokens, i, c), i) = c
          /\ \A j \in Indices \ {i} :
                get_token(update_schema(colorix.tokens, i, c), j)
                    = get_token(colorix.tokens, j)
          /\ update_schema(colorix.tokens, i, c).inverse_color = colorix.tokens.inverse_color
          /\ update_schema(colorix.tokens, i, c).on_accent = colorix.tokens.on_accent
          /\ update_schema(colorix.tokens, i, c).dark_mode = colorix.tokens.dark_mode

\* a theme of three colours at non-adjacent indices, processed in dark mode
C4_MixedTheme ==
    /\ colorix.called = "update_theme"
    /\ colorix.theme = Mixed
    /\ colorix.scales.dark_mode
    /\ get_token(colorix.tokens, 3) = Fresh(Yellow, TRUE).scale[3]
    /\ get_token(colorix.tokens, 3) # Fresh(Yellow, TRUE).scale[0]
    /\ get_token(colorix.tokens, 11) = Fresh(Preset("Pink"), TRUE).scale[11]

\* C5: in dark mode, for any seed, the final lightness of index 0 is strictly
\* below the final lightness of index 7.
C5_DarkOrder ==
    DrewDark => scales.okhsl[0].lightness < scales.okhsl[7].lightness

\* the dark scale of black, whose entries 0 and 7 are raised to clamp_l
C5_Black ==
    /\ DrewDark
    /\ drawn[1] = Custom(<<0, 0, 0>>)
    /\ scales.okhsl[0].lightness = dark_clamp_l[1]
    /\ scales.okhsl[7].lightness = dark_clamp_l[8]

\* C6: in light mode, for any seed (white, black and the seeds of lightness
\* above 0.79 included), the final lightness of index 0 is strictly above the
\* final lightness of index 7.
C6_LightOrder ==
    DrewLight => scales.okhsl[0].lightness > scales.okhsl[7].lightness

\* the light scale of white, whose entries 0 and 7 are lowered to clamp_v
C6_White ==
    /\ DrewLight
    /\ drawn[1] = Custom(<<255, 255, 255>>)
    /\ Seed.lightness > 790000
    /\ scales.okhsl[0].lightness = light_clamp_v[1]
    /\ scales.okhsl[7].lightness = light_clamp_v[8]

\* C7: in dark mode, for a seed hue in (323, 350) degrees, index 6 and index 7
\* both receive the 0.01 * (i + 1) lighten nudge and indices 0..5 do not.
C7_MagentaNudge ==
    DrewDark /\ SeedHue > 323 * One /\ SeedHue < 350 * One
        => scales.nudge_magenta = {6, 7}

\* the dark scale of Pink, hue 346: index 7 alone is nudged
C7_PinkNudge ==
    /\ DrewDark
    /\ drawn[1] = Preset("Pink")
    /\ SeedHue > 323 * One /\ SeedHue < 350 * One
    /\ scales.nudge_magenta = {7}

\* the entry dark_scale leaves at index 8 for a seed below the threshold
Boosted(hsl) ==
    Okhsl(hsl.hue, Min(One, FMul(hsl.saturation, 1250000)),
          hsl.lightness + FMul(300000, One - hsl.lightness))

\* C8 as stated: in dark mode the near-white seed rgb(245,245,245) takes the
\* lighten/boost branch, so index 8 is lighter and more saturated than the
\* seed.
C8_PaleBoosted ==
    DrewDark /\ drawn[1] = PaleGray
        => /\ scales.okhsl[8].lightness > Seed.lightness
           /\ scales.okhsl[8].saturation > Seed.saturation

\* C8: in dark mode the lighten/boost branch of index 8 is taken exactly when
\* the contrast of the seed against white is below -95.4, which holds for
\* near-black seeds: index 8 is then the seed lightened by 0.3 with 1.25
\* times its saturation (at most 1); for every other seed, rgb(245,245,245)
\* included, index 8 is the unmodified seed.
C8_DarkAccent ==
    DrewDark =>
        /\ scales.okhsl[8] = IF SeedLc < -95400000 THEN Boosted(Seed) ELSE Seed
        /\ drawn[1] = PaleGray => SeedLc > -One /\ scales.okhsl[8] = Seed
        /\ drawn[1] = Navy => SeedLc < -95400000

\* the dark scale of the near-black seed rgb(10,10,40)
C8_NearBlack ==
    /\ DrewDark
    /\ drawn[1] = Navy
    /\ scales.okhsl[8].lightness > Seed.lightness
    /\ scales.okhsl[8].saturation > Seed.saturation

\* seed.saturation * seed.lightness + sat_bonus clamped into [0.1, 1 - sat_clamp]
LightRule(hsl) ==
    clamp(FMul(hsl.saturation, hsl.lightness) + sat_val(hue_as_u8(as_degrees(hsl))),
          100000, One - sat_clamp(hue_as_u8(as_degrees(hsl))))

\* C9 as stated: in the light-mode output every index except 8 has the
\* saturation of the rule, for every seed.
C9_AllButSeed ==
    DrewLight =>
        \A i \in Indices \ {8} : scales.okhsl[i].saturation = LightRule(Seed)

\* C9: in the light-mode output of a seed with saturation > 0.01 and
\* lightness > 0.01, the indices 0..7, 10 and 11 have the saturation of the
\* rule; index 9 has, for every seed, the saturation of index 8, times 0.9
\* when the contrast of the seed against white is above -46; index 8 keeps the
\* saturation of the seed.
C9_LightSaturation ==
    DrewLight =>
        /\ Seed.saturation > 10000 /\ Seed.lightness > 10000 =>
              \A i \in (0 .. 7) \cup {10, 11} :
                  scales.okhsl[i].saturation = LightRule(Seed)
        /\ scales.okhsl[8].saturation = Seed.saturation
        /\ scales.okhsl[9].saturation =
              IF SeedLc > -46 * One THEN FMul(Seed.saturation, 900000)
              ELSE Seed.saturation

\* the light scale of Teal, a seed of the tapering hue band
C9_Teal ==
    /\ DrewLight
    /\ drawn[1] = Preset("Teal")
    /\ Seed.saturation > 10000 /\ Seed.lightness > 10000
    /\ sat_val(hue_as_u8(SeedHue)) < 250000
    /\ scales.okhsl[0].saturation = LightRule(Seed)
    /\ scales.okhsl[9].saturation # LightRule(Seed)

\* C10 as stated: in dark mode, for every index i in 0..7 the final
\* saturation lies in [clamp_s2[i], seed.saturation * clamp_s[i]] if the seed
\* saturation is above 0.36, and in [0, seed.saturation * clamp_s[i]]
\* otherwise.
C10_Band ==
    DrewDark =>
        \A i \in 0 .. 7 :
            /\ scales.okhsl[i].saturation
                   >= (IF Seed.saturation > 360000 THEN dark_clamp_s2[i + 1] ELSE 0)
            /\ scales.okhsl[i].saturation <= FMul(Seed.saturation, dark_clamp_s[i + 1])

\* C10: in dark mode, for every index i in 0..7: if the seed saturation is
\* above 0.36 the final saturation lies between clamp_s2[i] and
\* seed.saturation * clamp_s[i] clamped into [clamp_s2[i] + 0.01, 1];
\* otherwise it lies in [0, seed.saturation * clamp_s[i]].
C10_DarkSaturation ==
    DrewDark /\ Seed.saturation >= 0 =>
        \A i \in 0 .. 7 :
            IF Seed.saturation > 360000
            THEN /\ scales.okhsl[i].saturation >= dark_clamp_s2[i + 1]
                 /\ scales.okhsl[i].saturation
                        <= Max(dark_clamp_s2[i + 1] + 10000,
                               Min(One, FMul(Seed.saturation, dark_clamp_s[i + 1])))
            ELSE /\ scales.okhsl[i].saturation >= 0
                 /\ scales.okhsl[i].saturation
                        <= FMul(Seed.saturation, dark_clamp_s[i + 1])

\* the dark scale of Brown, whose index 0 ends above seed.saturation * clamp_s[0]
C10_Brown ==
    /\ DrewDark
    /\ drawn[1] = Preset("Brown")
    /\ Seed.saturation > 360000
    /\ scales.okhsl[0].saturation > FMul(Seed.saturation, dark_clamp_s[1])
    /\ scales.okhsl[0].saturation <= dark_clamp_s2[1] + 10000

(***************************************************************************)
(* Hue range, gamma transfer, picker limits                                *)
(***************************************************************************)
\* the hue fraction of an angle taken modulo a full turn
Wrapped(deg) == FDiv(deg % (360 * One), 360 * One)

C13_RoundTrip ==
    /\ (call # <<>> /\ call.fn = "round_trip") => call.out = call.arg
    /\ (call # <<>> /\ call.fn = "gamma_u8_from_linear_f32" /\ call.arg <= 0)
          => call.out = 0
    /\ (call # <<>> /\ call.fn = "gamma_u8_from_linear_f32" /\ call.arg >= One)
          => call.out = 255

\* a byte of the power segment came back from the round trip
C13_PowerByte ==
    call # <<>> /\ call.fn = "round_trip" /\ call.arg = 128 /\ call.out = 128

\* a byte of the linear segment came back from the round trip
C13_LinearByte ==
    call # <<>> /\ call.fn = "round_trip" /\ call.arg = 7 /\ call.out = 7

\* the encoder saturated above 1.0
C13_Saturated ==
    call # <<>> /\ call.fn = "gamma_u8_from_linear_f32" /\ call.arg = 2 * One
        /\ call.out = 255

\* C12: in light mode, when lc(white, seed) <= -46, index 8 is the seed
\* itself: its Hsl-like value is the unmodified conversion of the seed and
\* the exported colour at index 8 is the seed's 8-bit gamma RGB.
C12_SeedKept ==
    (DrewLight /\ SeedLc <= -46 * One) =>
        /\ scales.okhsl[8] = Seed
        /\ scales.scale[8] = rgb(drawn[1])

\* the light scale of Blue, a seed dark enough against white
C12_Blue ==
    /\ DrewLight
    /\ drawn[1] = Preset("Blue")
    /\ SeedLc <= -46 * One
    /\ scales.scale[8] = <<0, 144, 255>>

\* the floor of v: 0.13 at s = 0 and at s = 1, linear down to 0 at s = 0.3
vmin(s) ==
    IF s <= 300000 THEN FDiv(FMul(130000, 300000 - s), 300000)
    ELSE FDiv(FMul(130000, s - 300000), 700000)

\* the floor of s: 0.3 at v = 0 and at v = 1, linear down to 0 at v = 0.13
smin(v) ==
    IF v <= 130000 THEN FDiv(FMul(300000, 130000 - v), 130000)
    ELSE FDiv(FMul(300000, v - 130000), 870000)

\* C17: for s and v in [0, 1] clamp_custom does not fail, leaves the hue as
\* it is and yields v' in [vmin(s), 0.99] and s' in [smin(v), 1.0], both
\* floors taken from the values before clamping (up to two units of the
\* last decimal).
C17_PickerLimits ==
    (call # <<>> /\ call.fn = "clamp_custom") =>
        /\ ~scales.panicked
        /\ call.out.h = call.arg.h
        /\ call.out.v >= vmin(call.arg.s) - 2
        /\ call.out.v <= 990000
        /\ call.out.s >= smin(call.arg.v) - 2
        /\ call.out.s <= One

\* a picker value with both fields below their floors: both are raised
C17_BothRaised ==
    /\ call # <<>> /\ call.fn = "clamp_custom"
    /\ call.arg.s = 100000 /\ call.arg.v = 0
    /\ call.out.s = 300000
    /\ call.out.v > 80000 /\ call.out.v < 90000

(***************************************************************************)
(* The accent entries 8 and 9, the dark hue shifts                         *)
(***************************************************************************)
\* C18: in light mode, when lc(white, seed) > -46, index 8 gets lightness
\* 0.68, index 9 lightness 0.9 * 0.68 and index 9 saturation 0.9 times the
\* saturation of index 8; otherwise index 8 is unchanged, index 9 has the
\* seed's saturation and the seed's lightness darkened by 0.1.
C18_LightAccent ==
    DrewLight =>
        IF SeedLc > -46 * One
        THEN /\ scales.okhsl[8].lightness = 680000
             /\ scales.okhsl[9].lightness = FMul(900000, 680000)
             /\ scales.okhsl[9].saturation = FMul(900000, scales.okhsl[8].saturation)
        ELSE /\ scales.okhsl[8] = Seed
             /\ scales.okhsl[9].saturation = Seed.saturation
             /\ scales.okhsl[9].lightness = Seed.lightness - FMul(100000, Seed.lightness)

\* the light scale of the yellow seed, too light for a white foreground
C18_Yellow ==
    /\ DrewLight
    /\ drawn[1] = Custom(<<232, 210, 7>>)
    /\ SeedLc > -46 * One
    /\ Seed.lightness > 680000
    /\ scales.okhsl[8].lightness = 680000
    /\ scales.okhsl[9].lightness = 612000

\* a lightness moved toward 1 by the fraction f of its distance to 1
Lightened(l, f) == l + FMul(f, One - l)

\* C19: in dark mode, when lc(white, seed) < -95.4, index 8 is the seed
\* lightened by 0.3 with saturation min(1, 1.25 * seed saturation) and index
\* 9 is its previous value lightened by a further 0.25 with the seed's
\* saturation; otherwise index 8 is the unmodified seed and index 9 keeps the
\* seed lightened by 0.095.
C19_DarkAccentPair ==
    DrewDark =>
        IF SeedLc < -95400000
        THEN /\ scales.okhsl[8].hue = Seed.hue
             /\ scales.okhsl[8].lightness = Lightened(Seed.lightness, 300000)
             /\ scales.okhsl[8].saturation = Min(One, FMul(Seed.saturation, 1250000))
             /\ scales.okhsl[9].lightness
                    = Lightened(Lightened(Seed.lightness, 95000), 250000)
             /\ scales.okhsl[9].saturation = Seed.saturation
        ELSE /\ scales.okhsl[8] = Seed
             /\ scales.okhsl[9].lightness = Lightened(Seed.lightness, 95000)
             /\ scales.okhsl[9].saturation = Seed.saturation

\* the dark scale of the near-black blue: entry 9 lightened twice
C19_NavyTwice ==
    /\ DrewDark
    /\ drawn[1] = Custom(<<10, 10, 40>>)
    /\ SeedLc < -95400000
    /\ scales.okhsl[9].lightness > Lightened(Seed.lightness, 95000)
    /\ scales.okhsl[9].saturation = Seed.saturation
    /\ scales.okhsl[8].saturation > Seed.saturation

\* the hue in degrees that entry i of the dark tail is to have
ShiftedHue(i) ==
    IF (SeedHue >= 0 /\ SeedHue <= 90 * One) \/ (SeedHue >= 300 * One /\ SeedHue <= 350 * One)
    THEN SeedHue + 2 * (i - 8) * One
    ELSE IF SeedHue >= 100 * One /\ SeedHue <= 280 * One
    THEN SeedHue - 2 * (i - 8) * One
    ELSE SeedHue

\* C20: in dark mode, for i in 9..11, the hue of entry i is the seed hue plus
\* 2 * (i - 8) degrees when the seed hue is in [0, 90] or [300, 350], minus
\* 2 * (i - 8) degrees when it is in [100, 280], and the seed hue otherwise:
\* one shift at most, and the result within [0, 360] (hues compared to a
\* thousandth of a degree).
C20_DarkHueShift ==
    DrewDark =>
        \A i \in 9 .. 11 :
            /\ as_degrees(scales.okhsl[i]) - ShiftedHue(i) <= 1000
            /\ ShiftedHue(i) - as_degrees(scales.okhsl[i]) <= 1000
            /\ as_degrees(scales.okhsl[i]) >= 0
            /\ as_degrees(scales.okhsl[i]) <= 360 * One

\* the dark scale of Pink, the seed nearest to the upper end of [300, 350]
C20_Pink ==
    /\ DrewDark
    /\ drawn[1] = Preset("Pink")
    /\ SeedHue > 340 * One /\ SeedHue <= 350 * One
    /\ as_degrees(scales.okhsl[11]) > SeedHue + 5 * One
    /\ as_degrees(scales.okhsl[11]) < 360 * One

\* the dark scale of Blue, a seed of [100, 280]: entry 9 two degrees lower
C20_BlueDown ==
    /\ DrewDark
    /\ drawn[1] = Preset("Blue")
    /\ as_degrees(scales.okhsl[9]) < SeedHue - One

\* the dark scale of Violet, a seed between 280 and 300: no shift
C20_VioletKept ==
    /\ DrewDark
    /\ drawn[1] = Preset("Violet")
    /\ SeedHue > 280 * One /\ SeedHue < 300 * One
    /\ scales.okhsl[10].hue = Seed.hue

(***************************************************************************)
(* The extra scale, the animation, the background                          *)
(***************************************************************************)
\* C14: a Colorix made with extra_scale applies to no ui: neither its
\* construction nor a later update_theme, set_dark, set_light or dropdown
\* selection changes the visual style of the context.
C14_ContextUntouched ==
    colorix.apply_to = "ExtraScale" => ctx.style = StyleDefault

\* the context right after extra_scale: its style carries the tokens
C14_StyledByExtraScale ==
    /\ colorix.apply_to = "ExtraScale"
    /\ colorix.called = "extra_scale"
    /\ ctx.style # StyleDefault
    /\ ctx.style = set_egui_style(colorix.tokens)

\* an animated instance whose animation ran to progress 1.0
AnimationOver ==
    /\ colorix.animated
    /\ colorix.animator.animation_done
    /\ colorix.animator.progress = One

\* C15: update_theme on an animated Colorix animates towards the new theme:
\* when the animation is over (progress 1.0), each of the 12 animated role
\* tokens and the animated on_accent equals that token of the new theme.
C15_AnimationReachesTheme ==
    AnimationOver =>
        \A f \in AnimatedFields : colorix.animator.animated_tokens[f] = colorix.tokens[f]

\* the end of an animation: the animated ui_element_background is the new
\* theme's subtle_background, every other animated token is the theme's
C15_ElementBackgroundOff ==
    /\ AnimationOver
    /\ colorix.animator.animated_tokens.ui_element_background
           = colorix.tokens.subtle_background
    /\ colorix.animator.animated_tokens.ui_element_background
           # colorix.tokens.ui_element_background
    /\ \A f \in AnimatedFields \ {"ui_element_background"} :
           colorix.animator.animated_tokens[f] = colorix.tokens[f]

\* the colour of role f that the instance shows: the animated token of an
\* animated instance, the token itself otherwise
Shown(f) ==
    IF colorix.animated THEN colorix.animator.animated_tokens[f] ELSE colorix.tokens[f]

\* C16: draw_background(ctx, accent) paints the top edge in app_background
\* and the bottom edge in ui_element_background when accent is false; when
\* accent is true the bottom edge is solid_backgrounds on an instance that is
\* not animated and the animated active_ui_element_background on an animated
\* one.
C16_BackgroundColours ==
    colorix.called = "draw_background" =>
        /\ ctx.background.top = Shown("app_background")
        /\ ctx.background.bottom =
              IF ~ctx.background.accent THEN Shown("ui_element_background")
              ELSE IF colorix.animated
              THEN colorix.animator.animated_tokens.active_ui_element_background
              ELSE colorix.tokens.solid_backgrounds

\* an accent background of an instance that is not animated: the bottom edge
\* is the transparent colour of the unused animator
C16_TransparentAccent ==
    /\ colorix.called = "draw_background"
    /\ ~colorix.animated
    /\ ctx.background.accent
    /\ ctx.background.top = colorix.tokens.app_background
    /\ ctx.background.bottom = TRANSPARENT
    /\ colorix.tokens.solid_backgrounds # TRANSPARENT

(***************************************************************************)
(* The limits of the dark nudges, the achromatic round trip                *)
(***************************************************************************)
\* the nudged entry when the index-proportional nudge is taken for seed hues
\* strictly between 259 and 323 degrees only
StrictNudge(deg, i) ==
    IF deg > 259 * One /\ deg < 323 * One
    THEN OkhslLighten(NudgeEntry, FMul((i + 1) * One, 11000))
    ELSE IF DarkMagenta(deg, i)
    THEN OkhslLighten(NudgeEntry, FMul((i + 1) * One, 10000))
    ELSE NudgeEntry

\* C21: in dark mode the nudge of factor 0.011 * (i + 1) on indices 0..7 is
\* applied exactly when the seed hue lies strictly between 259 and 323
\* degrees, not at 259 or 323 themselves, and no index receives both this
\* nudge and the one of the hues from 323 to 350.
C21_StrictPurple ==
    (call # <<>> /\ call.fn = "dark_nudge")
        => call.out = StrictNudge(call.arg[1], call.arg[2])

\* index 7 of a seed of hue 323: lightened by 0.088 and then by 0.08
C21_BothNudges ==
    /\ call # <<>> /\ call.fn = "dark_nudge"
    /\ call.arg = <<323 * One, 7>>
    /\ call.out.lightness
          = Lightened(Lightened(NudgeEntry.lightness, 88000), 80000)

\* index 0 of a seed of hue 259: lightened by 0.011
C21_AtLowerLimit ==
    /\ call # <<>> /\ call.fn = "dark_nudge"
    /\ call.arg = <<259 * One, 0>>
    /\ call.out.lightness = Lightened(NudgeEntry.lightness, 11000)

\* a Lab-like colour without chroma and with lightness strictly inside (0, 1)
InnerGray(lab) == lab.a = 0 /\ lab.b = 0 /\ lab.l > 0 /\ lab.l < One

\* C22: on a Lab-like colour with zero chroma and lightness strictly between
\* 0 and 1 the conversions are mutually inverse: to Hsl-like gives saturation
\* 0 and hue 0, and converting that back gives zero chroma and the original
\* lightness (to two units of the last decimal).
C22_GrayRoundTrip ==
    /\ (call # <<>> /\ call.fn = "oklab_to_okhsl" /\ InnerGray(call.arg))
          => (call.out.saturation = 0 /\ call.out.hue = 0)
    /\ (call # <<>> /\ call.fn = "lab_round_trip" /\ InnerGray(call.arg))
          => /\ call.out.a = 0 /\ call.out.b = 0
             /\ call.out.l - call.arg.l <= 2
             /\ call.arg.l - call.out.l <= 2

\* the gray of lightness 0.5: kept by the conversion to Hsl-like, then taken
\* through the inverse toe on the way back
C22_MidGray ==
    /\ call # <<>> /\ call.fn = "lab_round_trip"
    /\ call.arg = Oklab(500000, 0, 0)
    /\ call.via = Okhsl(0, 0, 500000)
    /\ call.out.a = 0 /\ call.out.b = 0
    /\ call.out.l = toe_inv(500000)
    /\ call.out.l > 550000


(***************************************************************************)
(* The animator: finished animations, the two flags, restarts.             *)
(***************************************************************************)
\* a frame in which set_animate calls animate on a finished animation
DoneFrame ==
    /\ colorix.animated
    /\ colorix.animator.anim_id
    /\ colorix.animator.animation_done
    /\ colorix'.called \in {"set_animator", "update_locally"}

\* C23: once an animation is done, a call of animate changes no field of the
\* animator; for Global and ExtraScale it leaves the style untouched, for
\* Local it writes the current animated_tokens to the style of the Ui on
\* every frame.
C23_DoneAnimate ==
    [][DoneFrame =>
          /\ colorix'.animator = colorix.animator
          /\ ctx'.style = ctx.style
          /\ colorix.apply_to \in {"Global", "ExtraScale"} => ctx'.ui.style = ctx.style
          /\ colorix.apply_to = "Local" =>
                ctx'.ui.style = apply_local_ui(colorix.animator)]_vars

\* a Local instance after a finished animation to a new theme: the frame's
\* Ui carries the animated tokens, which the style of the context does not
C23_LocalReapplied ==
    /\ colorix.apply_to = "Local"
    /\ colorix.called = "update_locally"
    /\ colorix.animator.anim_id
    /\ colorix.animator.animation_done
    /\ colorix.animator.progress = One
    /\ colorix.animator.animated_tokens # ColorAnimatorNew(ColorTokensDefault).animated_tokens
    /\ ctx.ui.style = apply_local_ui(colorix.animator)
    /\ ctx.ui.style # ctx.style

\* C24: for an animator made by ColorAnimator::new, after any sequence of
\* start, restart and animate calls, animation_done is true exactly when
\* animation_in_progress is false.
C24_FlagsOpposed ==
    colorix.animated =>
        (colorix.animator.animation_done <=> ~colorix.animator.animation_in_progress)

\* restart was called, a frame was drawn since, and the animation runs
C24_Restarted ==
    /\ colorix.animated
    /\ colorix.animator.restarts = 1
    /\ colorix.animator.animation_in_progress
    /\ ~colorix.animator.animation_done
    /\ colorix.animator.progress = One \div 2
    /\ colorix.called = "set_animator"

\* a call of start, by shift_tokens, on an animation in progress
StartInProgress ==
    /\ colorix.animated
    /\ colorix.animator.animation_in_progress
    /\ colorix'.called = "shift_tokens"

\* C28: start on an animation in progress restarts it from what is shown:
\* the animated_tokens in flight become the new start tokens, the toolkit's
\* animation value is reset to 0, token_shift is flipped once and the target
\* tokens are not changed.
C28_RestartFromShown ==
    [][StartInProgress =>
          /\ colorix'.animator.tokens = colorix.animator.animated_tokens
          /\ colorix'.animator.animated_tokens = colorix.animator.animated_tokens
          /\ ctx'.anim = 0
          /\ colorix'.animator.token_shift = ~colorix.animator.token_shift
          /\ colorix'.animator.restarts = colorix.animator.restarts + 1
          /\ colorix'.tokens = colorix.tokens
          /\ colorix'.animator.animation_in_progress
          /\ ~colorix'.animator.animation_done]_vars

\* an animation restarted half way: its start tokens are those shown, which
\* are neither the tokens it was made with nor the target
C28_RestartedHalfWay ==
    /\ colorix.called = "shift_tokens"
    /\ colorix.animator.restarts = 1
    /\ colorix.animator.anim_id
    /\ colorix.animator.progress = One \div 2
    /\ ctx.anim = 0
    /\ colorix.animator.tokens = colorix.animator.animated_tokens
    /\ colorix.animator.tokens # colorix.tokens
    /\ colorix.animator.tokens.solid_backgrounds
          \notin {global(Conversions, ContextNew(TRUE), theme).self.tokens.solid_backgrounds :
                     theme \in Themes}

\* the animation is over and its start tokens are the animated tokens
Completed ==
    /\ colorix.animator.animation_done
    /\ ~colorix.animator.animation_in_progress
    /\ colorix.animator.tokens = colorix.animator.animated_tokens

\* C25: on an animated Colorix every started animation eventually completes:
\* when no start or restart follows the start, set_animator is called frame
\* after frame and time passes, then animation_done becomes true,
\* animation_in_progress false and the start tokens equal animated_tokens.
C25_EventuallyCompleted ==
    colorix.animator.animation_in_progress ~> Completed

\* an animation to a new theme that has just completed in a frame
C25_JustCompleted ==
    /\ Completed
    /\ colorix.called = "set_animator"
    /\ colorix.animator.progress = One
    /\ ctx.anim = 0
    /\ colorix.animator.animated_tokens.solid_backgrounds = colorix.tokens.solid_backgrounds
    /\ colorix.animator.animated_tokens # ColorAnimatorNew(ColorTokensDefault).animated_tokens

\* C27: start always terminates, from any animator state: it calls restart
\* at most once and restart calls start at most once, and afterwards
\* animation_done is false and animation_in_progress is true.
C27_StartTerminates ==
    /\ [](call # <<>> => call.restarts <= 1 /\ call.starts <= 2)
    /\ [](Returned => /\ ~colorix.animator.animation_done
                      /\ colorix.animator.animation_in_progress)
    /\ Running ~> Returned

\* start has returned after one call of restart and the call of start in it
C27_ReturnedThroughRestart ==
    /\ Returned
    /\ call.restarts = 1
    /\ call.starts = 2
    /\ call.from.an.animation_in_progress
    /\ ~colorix.animator.animation_done
    /\ colorix.animator.animation_in_progress

\* the calls taken one by one give what start gives when taken at once
CallsAgreeWithStart == Returned => AnimatorPair = start(call.from)

(***************************************************************************)
(* The themes dropdown.                                                    *)
(***************************************************************************)
\* C26: whenever themes_dropdown is drawn, theme_index is a valid index into
\* the list of names it displays, for any custom theme list.
C26_IndexInNames ==
    (call # <<>> /\ call.fn = "themes_dropdown") => call.index < Len(call.names)

\* a custom theme was chosen in a dropdown of presets and customs, and the
\* dropdown is then drawn with the presets alone: the index read is the
\* length of the list of names
C26_CustomChosenBefore ==
    /\ call # <<>>
    /\ call.fn = "themes_dropdown"
    /\ colorix.theme = Uniform(Yellow)
    /\ call.names = THEME_NAMES
    /\ call.index = Len(THEME_NAMES)
    /\ call.panicked

\* the second preset theme is shown and the dropdown is drawn with one custom
\* theme only: the index 1 is read from a list of one name
C26_CustomOnlyShorter ==
    /\ call # <<>>
    /\ call.fn = "themes_dropdown"
    /\ colorix.theme = THEMES[2]
    /\ call.index = 1
    /\ call.names = <<"Yellow">>
    /\ call.panicked
=============================================================================
